---- MODULE Spec2Model ----
(***************************************************************************)
(* Model of the naming/structure normalization engine                      *)
(* (src/ofd/scripts/cleanup_opt_naming.py).                                *)
(*                                                                         *)
(* The data/ hierarchy is a set of directory paths plus a map from file    *)
(* paths to JSON documents.  Names are strings; every string function of   *)
(* the script (split, startswith, title, the regular expressions) is       *)
(* computed character by character.  A run of the script is a sequence of  *)
(* steps, one per detector call of CleanupOptNamingScript.run.             *)
(***************************************************************************)
EXTENDS Integers, Sequences, FiniteSets, TLC

(***************************************************************************)
(* Bounds of the exploration.                                              *)
(***************************************************************************)
\* Largest number of seed nodes put into one input tree.
MaxSeeds == 3
\* Number of consecutive invocations of the script explored in a session.
MaxRuns == 2
\* Largest number of filesystem operations performed before a crash.
MaxCrashOps == 6
\* Seed nodes of the trees the scoped invocations run over.
MaxScopedSeeds == 2

\* Actions of the Report objects format_report is applied to.
MaxReportActions == 3

(***************************************************************************)
(* Strings.                                                                *)
(***************************************************************************)
LowerChars == "abcdefghijklmnopqrstuvwxyz"
UpperChars == "ABCDEFGHIJKLMNOPQRSTUVWXYZ"
Digits == "0123456789"
\* The characters of the model, in code-point order (what sorted() uses).
CharOrder == " ()*+-./0123456789ABCDEFGHIJKLMNOPQRSTUVWXYZ_abcdefghijklmnopqrstuvwxyz"

\* s[i-1:i]: the i-th character, "" outside the string.
Char(s, i) == IF i \in 1..Len(s) THEN SubSeq(s, i, i) ELSE ""

\* Index of the first occurrence of character c in s, 0 when absent.
IndexOf(c, s) ==
    IF \E i \in 1..Len(s) : Char(s, i) = c
    THEN CHOOSE i \in 1..Len(s) :
            /\ Char(s, i) = c
            /\ \A j \in 1..(i - 1) : Char(s, j) # c
    ELSE 0

InStr(c, s) == IndexOf(c, s) > 0

Ord(c) == IndexOf(c, CharOrder)

\* a < b in Python's string order.
StrLess(a, b) ==
    \E k \in 0..Len(a) :
        /\ k <= Len(b)
        /\ SubSeq(a, 1, k) = SubSeq(b, 1, k)
        /\ \/ k = Len(a) /\ k < Len(b)
           \/ k < Len(a) /\ k < Len(b) /\ Ord(Char(a, k + 1)) < Ord(Char(b, k + 1))

RECURSIVE SortedSeq(_)
\* sorted(S) for a set of strings.
SortedSeq(S) ==
    IF S = {} THEN << >>
    ELSE LET m == CHOOSE x \in S : \A y \in S \ {x} : StrLess(x, y)
         IN  <<m>> \o SortedSeq(S \ {m})

StartsWith(s, p) == Len(p) <= Len(s) /\ SubSeq(s, 1, Len(p)) = p

EndsWith(s, p) == Len(p) <= Len(s) /\ SubSeq(s, Len(s) - Len(p) + 1, Len(s)) = p

\* Python's "sub in s".
Contains(sub, s) ==
    \E i \in 0..(Len(s) - Len(sub)) : SubSeq(s, i + 1, i + Len(sub)) = sub

DropFirst(s, n) == SubSeq(s, n + 1, Len(s))

DropLast(s, n) == SubSeq(s, 1, Len(s) - n)

RECURSIVE Split(_, _)
\* s.split(c) for a one-character separator.
Split(s, c) ==
    LET i == IndexOf(c, s)
    IN  IF i = 0 THEN <<s>>
        ELSE <<SubSeq(s, 1, i - 1)>> \o Split(DropFirst(s, i), c)

RECURSIVE Join(_, _)
\* sep.join(parts)
Join(parts, sep) ==
    IF Len(parts) = 0 THEN ""
    ELSE IF Len(parts) = 1 THEN parts[1]
    ELSE parts[1] \o sep \o Join(Tail(parts), sep)

RECURSIVE ReplaceChar(_, _, _)
\* s.replace(a, b) for a one-character a.
ReplaceChar(s, a, b) ==
    IF Len(s) = 0 THEN ""
    ELSE (IF Char(s, 1) = a THEN b ELSE Char(s, 1)) \o ReplaceChar(DropFirst(s, 1), a, b)

RECURSIVE LStripChars(_, _)
LStripChars(s, cs) ==
    IF Len(s) > 0 /\ InStr(Char(s, 1), cs) THEN LStripChars(DropFirst(s, 1), cs) ELSE s

RECURSIVE RStripChars(_, _)
RStripChars(s, cs) ==
    IF Len(s) > 0 /\ InStr(Char(s, Len(s)), cs) THEN RStripChars(DropLast(s, 1), cs) ELSE s

\* s.strip(): whitespace of the model alphabet is the blank.
Strip(s) == LStripChars(RStripChars(s, " "), " ")

IsLower(c) == InStr(c, LowerChars)
IsUpper(c) == InStr(c, UpperChars)
IsDigit(c) == InStr(c, Digits)
IsCased(c) == IsLower(c) \/ IsUpper(c)

LowerChar(c) == IF IsUpper(c) THEN Char(LowerChars, IndexOf(c, UpperChars)) ELSE c
UpperChar(c) == IF IsLower(c) THEN Char(UpperChars, IndexOf(c, LowerChars)) ELSE c

RECURSIVE Lower(_)
Lower(s) == IF Len(s) = 0 THEN "" ELSE LowerChar(Char(s, 1)) \o Lower(DropFirst(s, 1))

RECURSIVE Upper(_)
Upper(s) == IF Len(s) = 0 THEN "" ELSE UpperChar(Char(s, 1)) \o Upper(DropFirst(s, 1))

RECURSIVE TitleFrom(_, _)
\* str.title(): a cased character is upper-cased when the previous character
\* is not cased, lower-cased otherwise.
TitleFrom(s, prevCased) ==
    IF Len(s) = 0 THEN ""
    ELSE LET c == Char(s, 1)
         IN  (IF prevCased THEN LowerChar(c) ELSE UpperChar(c))
             \o TitleFrom(DropFirst(s, 1), IsCased(c))

Title(s) == TitleFrom(s, FALSE)

RECURSIVE Reverse(_)
Reverse(s) == IF Len(s) = 0 THEN "" ELSE Reverse(DropFirst(s, 1)) \o Char(s, 1)

\* Set of the elements of a sequence.
Range(q) == {q[i] : i \in 1..Len(q)}

(***************************************************************************)
(* Regular expressions.  A pattern is a sequence of elements matched       *)
(* greedily from the start of the string:                                  *)
(*   lit  - a literal text            opt - an optional literal text       *)
(*   cls  - characters of a class, at least min, one or many               *)
(*   end  - the end of the string                                          *)
(* Every pattern of the script follows a repetition by a character outside *)
(* the repeated class, so greedy matching is what re computes.             *)
(***************************************************************************)
Lit(t) == [kind |-> "lit", text |-> t, min |-> 1, many |-> FALSE]
Opt(t) == [kind |-> "opt", text |-> t, min |-> 0, many |-> FALSE]
Cls(cs, mn, mny) == [kind |-> "cls", text |-> cs, min |-> mn, many |-> mny]
AtEnd == [kind |-> "end", text |-> "", min |-> 0, many |-> FALSE]
\* \s+ and \s*  (the blank is the only whitespace of the model alphabet)
WS1 == Cls(" ", 1, TRUE)
WS0 == Cls(" ", 0, TRUE)
\* [\s_-]*
SepDash == Cls(" _-", 0, TRUE)
\* [-–—]?  (the hyphen is the only dash of the model alphabet)
DashOpt == Cls("-", 0, FALSE)
\* \d+
Num1 == Cls(Digits, 1, TRUE)

RECURSIVE RunLen(_, _)
\* Length of the longest prefix of s made of characters of cs.
RunLen(s, cs) ==
    IF Len(s) > 0 /\ InStr(Char(s, 1), cs) THEN 1 + RunLen(DropFirst(s, 1), cs) ELSE 0

\* s starts with the text of element e; ic is re.IGNORECASE.
ElemHit(e, s, ic) ==
    IF ic THEN StartsWith(Lower(s), Lower(e.text)) ELSE StartsWith(s, e.text)

\* A class element matching a run of run characters: the whole run when the
\* class is repeated, one character otherwise; -1 below the minimum.
ClsLen(e, run) ==
    IF e.many \/ run = 0 THEN (IF run >= e.min THEN run ELSE -1)
    ELSE (IF 1 >= e.min THEN 1 ELSE -1)

\* Number of characters of s the element e matches, -1 when it does not.
ElemLen(e, s, ic) ==
    CASE e.kind = "lit" -> IF ElemHit(e, s, ic) THEN Len(e.text) ELSE -1
      [] e.kind = "opt" -> IF ElemHit(e, s, ic) THEN Len(e.text) ELSE 0
      [] e.kind = "cls" -> ClsLen(e, RunLen(s, e.text))
      [] e.kind = "end" -> IF Len(s) = 0 THEN 0 ELSE -1

\* n characters matched, then rest more (or -1): the length of the match.
MatchLen(n, rest) == IF rest < 0 THEN -1 ELSE n + rest

RECURSIVE MatchEnd(_, _, _)
\* The first element matched n characters of s (-1: no match); the match of
\* the remaining elements follows.
MatchRest(n, pat, s, ic) ==
    IF n < 0 THEN -1 ELSE MatchLen(n, MatchEnd(Tail(pat), DropFirst(s, n), ic))

\* re.match(pat, s): number of characters matched, -1 when there is no match.
\* ic is re.IGNORECASE.
MatchEnd(pat, s, ic) ==
    IF Len(pat) = 0 THEN 0
    ELSE MatchRest(ElemLen(Head(pat), s, ic), pat, s, ic)

\* s without its first n characters when n >= 0 (a match), s otherwise.
DropMatched(s, n) == IF n < 0 THEN s ELSE DropFirst(s, n)

\* s without its last n characters when n >= 0 (a match), s otherwise.
DropMatchedEnd(s, n) == IF n < 0 THEN s ELSE DropLast(s, n)

\* re.sub("^" + pat, "", s)
SubAtStart(pat, s) == DropMatched(s, MatchEnd(pat, s, FALSE))

\* re.sub("^" + pat, "", s, flags=re.IGNORECASE)
SubAtStartIgnoreCase(pat, s) == DropMatched(s, MatchEnd(pat, s, TRUE))

RECURSIVE ReversePat(_)
ReversePat(pat) ==
    IF Len(pat) = 0 THEN << >>
    ELSE ReversePat(Tail(pat)) \o <<[Head(pat) EXCEPT !.text =
            IF Head(pat).kind = "cls" THEN Head(pat).text ELSE Reverse(Head(pat).text)]>>

\* re.sub(pat + "$", "", s): the match is found from the end of the string.
SubAtEnd(pat, s) == DropMatchedEnd(s, MatchEnd(ReversePat(pat), Reverse(s), FALSE))

\* pattern.search(s) for a pattern that may start anywhere.
Search(pat, s) == \E i \in 0..Len(s) : MatchEnd(pat, DropFirst(s, i), FALSE) >= 0

RECURSIVE RemoveEmptyParens(_)
\* The scan of RemoveEmptyParens at a position where \(\s*\) matches n
\* characters (n <= 0: no match, the character is kept).
RemoveEmptyParensAt(s, n) ==
    IF n > 0 THEN RemoveEmptyParens(DropFirst(s, n))
    ELSE Char(s, 1) \o RemoveEmptyParens(DropFirst(s, 1))

\* re.sub(r"\(\s*\)", "", s)
RemoveEmptyParens(s) ==
    IF Len(s) = 0 THEN ""
    ELSE RemoveEmptyParensAt(s, MatchEnd(<<Lit("("), WS0, Lit(")")>>, s, FALSE))

RECURSIVE CollapseSpaces(_)
\* The scan of CollapseSpaces at a position where r blanks follow.
CollapseSpacesAt(s, r) ==
    IF r >= 2 THEN " " \o CollapseSpaces(DropFirst(s, r))
    ELSE Char(s, 1) \o CollapseSpaces(DropFirst(s, 1))

\* re.sub(r"\s{2,}", " ", s)
CollapseSpaces(s) == IF Len(s) = 0 THEN "" ELSE CollapseSpacesAt(s, RunLen(s, " "))

(***************************************************************************)
(* Vocabulary tables.                                                      *)
(***************************************************************************)
KNOWN_COLORS ==
    {"black", "white", "red", "blue", "green", "yellow", "orange",
     "purple", "pink", "grey", "gray", "clear", "natural", "gold",
     "silver", "bronze", "copper", "brown", "cyan", "magenta",
     "violet", "teal", "beige", "ivory", "charcoal", "cream",
     "maroon", "navy", "olive", "coral", "salmon", "lime",
     "turquoise", "indigo", "scarlet", "amber"}

COLOR_MODIFIERS ==
    {"neon", "dark", "light", "bright", "galaxy", "matte", "pastel",
     "deep", "pale", "hot", "liquid", "kaoss", "mango", "midnight",
     "cherry", "luminous", "mojito"}

MATERIAL_KEYWORDS ==
    {"tpu", "pla", "petg", "abs", "asa", "pa", "pc", "pva", "hips",
     "pctg", "pvdf", "pom", "peek", "pei", "flexible", "speed"}

Rule(p, a, pat) == [prefix |-> p, action |-> a, name_pattern |-> pat]

\* Brand -> rules in dictionary order.  Brands without an entry have no rule.
PREFIX_RULES(brand) ==
    CASE brand = "matter3d_inc" ->
           <<Rule("basics_series_", "strip",
                  <<Lit("Basics"), WS1, Lit("Series"), WS0, DashOpt, WS0>>),
             Rule("hf_", "strip", <<Lit("HF"), WS1>>)>>
      [] brand = "printedsolid" ->
           <<Rule("ps_imports_", "strip", <<Lit("PS"), WS1, Lit("Imports"), WS1>>)>>
      [] brand = "smart_materials_3d" ->
           <<Rule("innovatefil_", "strip", <<Lit("Innovatefil"), WS1>>),
             Rule("ep_easy_print_", "strip",
                  <<Lit("EP"), WS1, Lit("Easy"), WS1, Lit("Print"), WS1>>)>>
      [] brand = "rosa3d_filaments" ->
           <<Rule("pet_g_standard_hs_", "strip",
                  <<Lit("PET"), SepDash, Opt("G"), WS0, Lit("Standard"), WS1,
                    Lit("HS"), WS1>>)>>
      [] brand = "amolen" ->
           <<Rule("glow_in_the_dark_", "strip",
                  <<Lit("Glow"), WS1, Lit("In"), WS1, Lit("The"), WS1, Lit("Dark"), WS1>>)>>
      [] brand = "dremel" ->
           <<Rule("slk_cop_01_", "strip",
                  <<Lit("SLK"), SepDash, Lit("COP"), SepDash, Lit("01"), WS0>>),
             Rule("nav_01_", "strip", <<Lit("NAV"), SepDash, Lit("01"), WS0>>),
             Rule("bla_01_", "strip", <<Lit("BLA"), SepDash, Lit("01"), WS0>>)>>
      [] brand = "sainsmart" ->
           <<Rule("high_speed_95a_flexible_", "strip",
                  <<Lit("High"), WS1, Lit("Speed"), WS1, Lit("95A"), WS1,
                    Lit("Flexible"), WS1>>)>>
      [] brand = "sunlu" ->
           <<Rule("petg_glow_in_the_dark_", "strip",
                  <<Lit("PETG"), WS1, Lit("Glow"), WS1, Lit("In"), WS1, Lit("The"),
                    WS1, Lit("Dark"), WS1>>),
             Rule("pla_glow_in_the_dark_", "strip",
                  <<Lit("PLA"), WS1, Lit("Glow"), WS1, Lit("In"), WS1, Lit("The"),
                    WS1, Lit("Dark"), WS1>>)>>
      [] OTHER -> << >>

\* Brand -> product-line prefixes in list order.
PRODUCT_LINE_PREFIXES(brand) ==
    CASE brand = "3dxtech" -> <<"wearx_wear_resistant_nylon_filament_">>
      [] brand = "amolen" -> <<"galaxy_sparkle_shiny_galaxy_", "90a_flexible_">>
      [] brand = "ataraxia_art" -> <<"flexible_89a_">>
      [] brand = "dremel" -> <<"digilab_eco_", "digilab_", "df">>
      [] brand = "eolas_prints" -> <<"ingeo_850_", "ingeo_870_">>
      [] brand = "flashforge" -> <<"chameleon_", "d_series_", "rapid_">>
      [] brand = "matter3d_inc" -> <<"performance_">>
      [] brand = "polar_filament" -> <<"biodegradable_flexible_95a_soft_">>
      [] brand = "polymaker" ->
           <<"creator_special_edition_", "for_production_",
             "panchroma_", "polysmooth_", "polysonic_",
             "polylite_", "polycast_", "polywood_", "polymax_">>
      [] brand = "primacreator" -> <<"primaselect_", "primavalue_", "easyprint_">>
      [] brand = "printedsolid" -> <<"jessie_premium_">>
      [] brand = "recreus" -> <<"conductive_filaflex_", "balena_filaflex_", "filaflex_">>
      [] brand = "rosa3d_filaments" ->
           <<"impact_abrasive_uv_h2o_microbe_resistant_",
             "pet_g_structure_hs_", "pet_g_galaxy_hs_", "pet_g_hs_",
             "rosa_flex_">>
      [] brand = "sainsmart" ->
           <<"temperature_sensitive_flexible_95a_",
             "flexible_95a_", "flexible_87a_", "gt_3_">>
      [] brand = "sunlu" -> <<"luminous_glow_in_the_dark_">>
      [] OTHER -> << >>

\* Brands with an SKU pattern  ^(?:[a-z]+_)*(?:\d+_)+
PRODUCT_LINE_SKU_PATTERNS == {"dremel"}

\* Brand -> product-line suffixes in list order.
PRODUCT_LINE_SUFFIXES(brand) ==
    CASE brand = "coex_3d" ->
           <<"_coexflex_60a", "_coexflex_60d", "_coexflex_40d", "_coexflex_30d">>
      [] brand = "sainsmart" -> <<"_92a_flexible">>
      [] brand = "zyltech" -> <<"_texas_twister_series_multi_color">>
      [] brand = "matterhackers" -> <<"_mh_build_series_flexible">>
      [] OTHER -> << >>

\* Brand -> suffix rules in dictionary order.
SUFFIX_STRIP_RULES(brand) ==
    CASE brand = "zyltech" ->
           <<Rule("_new_made_in_usa_premium_composite", "strip",
                  <<WS0, Lit("New"), WS1, Lit("Made"), WS1, Lit("In"), WS1,
                    Lit("Usa"), WS1, Lit("Premium"), WS1, Lit("Composite")>>)>>
      [] brand = "matterhackers" ->
           <<Rule("_series_thermoplastic_polyurethane", "strip",
                  <<WS0, Lit("Series"), WS1, Lit("Thermoplastic"), WS1,
                    Lit("Polyurethane")>>)>>
      [] OTHER -> << >>

TECH_SPEC_PATTERNS ==
    << <<Num1, AtEnd>>,
       <<Lit("hytrel_")>>,
       <<Lit("coexflex_")>>,
       <<Lit("ingeo_"), Num1>>,
       <<Num1, Lit("a_flexible")>>,
       <<Lit("flexible_"), Num1, Lit("a_")>>,
       <<Lit("gt_"), Num1, Lit("_high_speed_"), Num1, Lit("a_")>> >>

\* pattern.pattern of the entries of TECH_SPEC_PATTERNS.
TECH_SPEC_SOURCE ==
    <<"^\\d+$", "hytrel_", "coexflex_", "ingeo_\\d+", "\\d+a_flexible",
      "flexible_\\d+a_", "gt_\\d+_high_speed_\\d+a_">>

\* The first pattern is anchored at the start (^\d+$); the others may match
\* anywhere in the name.
TechSpecMatch(i, variant_id) ==
    IF i = 1 THEN MatchEnd(TECH_SPEC_PATTERNS[1], variant_id, FALSE) >= 0
    ELSE Search(TECH_SPEC_PATTERNS[i], variant_id)

MAX_VARIANT_LENGTH == 40

MATERIAL_UPPER ==
    {"pla", "petg", "abs", "asa", "tpu", "tpe", "pa", "pa6", "pa12",
     "pc", "pva", "hips", "pctg", "pvdf", "pom", "peek", "pei", "pet",
     "pps", "ppa", "pvb", "pbt", "cf", "gf", "ht", "uv", "hs"}

(***************************************************************************)
(* Name helpers.                                                           *)
(***************************************************************************)
clean_display_name(slug) == Title(ReplaceChar(slug, "_", " "))

is_color_like(name) ==
    LET parts == Split(name, "_")
        n == Len(parts)
    IN  \/ name \in KNOWN_COLORS
        \/ /\ n >= 2
           /\ parts[1] \in COLOR_MODIFIERS
           /\ Join(Tail(parts), "_") \in KNOWN_COLORS
        \/ /\ n >= 2
           /\ parts[n] \in KNOWN_COLORS
           /\ \A i \in 1..(n - 1) : parts[i] \in COLOR_MODIFIERS \/ parts[i] \in KNOWN_COLORS

has_material_keyword(name) == Range(Split(name, "_")) \cap MATERIAL_KEYWORDS # {}

RECURSIVE DisplayParts(_)
DisplayParts(parts) ==
    IF Len(parts) = 0 THEN << >>
    ELSE <<IF Lower(Head(parts)) \in MATERIAL_UPPER THEN Upper(Head(parts))
           ELSE Title(Head(parts))>> \o DisplayParts(Tail(parts))

id_to_display_name(slug) == Join(DisplayParts(Split(slug, "_")), " ")

RECURSIVE SkuGroups(_, _)
\* Characters matched by (?:cs+_)* at the start of s.
SkuGroups(s, cs) ==
    LET r == RunLen(s, cs)
    IN  IF r >= 1 /\ Char(s, r + 1) = "_" THEN r + 1 + SkuGroups(DropFirst(s, r + 1), cs)
        ELSE 0

\* sku_re.match(remainder): m.end(), or -1 without a match.
SkuMatchEnd(s) ==
    LET a == SkuGroups(s, LowerChars)
        d == SkuGroups(DropFirst(s, a), Digits)
    IN  IF d > 0 THEN a + d ELSE -1

RECURSIVE SepPattern(_)
\* "^" + sep.join(re.escape(p) for p in parts) + sep
SepPattern(parts) ==
    IF Len(parts) = 0 THEN << >>
    ELSE <<Lit(Head(parts)), Cls(" _+-.*", 0, TRUE)>> \o SepPattern(Tail(parts))

\* Python's "a or b" for strings.
OrElse(a, b) == IF a # "" THEN a ELSE b

clean_variant_name(old_name, prefix, new_id) ==
    LET c1 == Strip(RemoveEmptyParens(old_name))
        pat == SepPattern(Split(RStripChars(prefix, "_"), "_"))
        c2 == Strip(SubAtStartIgnoreCase(pat, c1))
        cleaned == Strip(CollapseSpaces(c2))
    IN  OrElse(cleaned, clean_display_name(new_id))

RECURSIVE ShrinkTo(_, _)
\* while not name.startswith(prefix): prefix = prefix[:-1]
ShrinkTo(prefix, name) ==
    IF StartsWith(name, prefix) THEN prefix ELSE ShrinkTo(DropLast(prefix, 1), name)

RECURSIVE CommonOf(_, _)
CommonOf(prefix, names) ==
    IF Len(names) = 0 \/ prefix = "" THEN prefix
    ELSE CommonOf(ShrinkTo(prefix, Head(names)), Tail(names))

\* s.rfind(c) + 1 (0 when absent)
LastIndexOf(c, s) ==
    IF InStr(c, s) THEN Len(s) + 1 - IndexOf(c, Reverse(s)) ELSE 0

compute_common_prefix(names) ==
    IF Len(names) = 0 THEN ""
    ELSE LET prefix == CommonOf(Head(names), Tail(names))
             idx == LastIndexOf("_", prefix) - 1
         IN  IF prefix = "" THEN ""
             ELSE IF idx > 0 THEN SubSeq(prefix, 1, idx + 1) ELSE ""

prefix_implied_by_filament(prefix, filament_id, brand) ==
    LET p == RStripChars(prefix, "_")
    IN  \/ Contains(p, filament_id)
        \/ p = "hs" /\ Contains("high_speed", filament_id)
        \/ p = "high_speed" /\ Contains("high_speed", filament_id)
        \/ Contains(ReplaceChar(p, "_", ""), ReplaceChar(filament_id, "_", ""))
        \/ Contains("glow_in_the_dark", prefix) /\ Contains("glow", filament_id)
        \/ Range(Split(brand, "_")) \cap Range(Split(p, "_")) # {}

(***************************************************************************)
(* JSON documents: an attribute map, or a file that does not parse.        *)
(***************************************************************************)
EmptyMap == [k \in {} |-> ""]

Doc(m) == [ok |-> TRUE, map |-> m]

\* A file json.load() raises JSONDecodeError on.
CorruptDoc == [ok |-> FALSE, map |-> EmptyMap]

Put(m, k, v) == [j \in DOMAIN m \cup {k} |-> IF j = k THEN v ELSE m[j]]

Del(m, k) == [j \in DOMAIN m \ {k} |-> m[j]]

\* dict.get(k, default)
Get(m, k, default) == IF k \in DOMAIN m THEN m[k] ELSE default

(***************************************************************************)
(* The store: directories and files below data_dir, addressed by their     *)
(* path segments.  A world is the store together with the report of the    *)
(* run and the scratch sets of the detector that is executing.             *)
(*   fuel - filesystem operations left before the process is killed        *)
(*          (-1: the run is not interrupted);  dead - it has been killed.  *)
(*   applied - history of the transforms carried out (not program state).  *)
(***************************************************************************)
IsPrefix(p, q) == Len(p) <= Len(q) /\ SubSeq(q, 1, Len(p)) = p

Under(S, p) == {q \in S : IsPrefix(p, q)}

Rebase(q, src, dst) == dst \o SubSeq(q, Len(src) + 1, Len(q))

Last(q) == q[Len(q)]

Parent(q) == SubSeq(q, 1, Len(q) - 1)

\* "/".join(path)
RelPath(path) == Join(path, "/")

is_dir(w, p) == p \in w.dirs

is_file(w, p) == p \in DOMAIN w.files

exists(w, p) == is_dir(w, p) \/ is_file(w, p)

\* Names of the entries of directory p.
iterdir(w, p) ==
    {q[Len(p) + 1] : q \in {r \in w.dirs \cup DOMAIN w.files :
                                 Len(r) = Len(p) + 1 /\ IsPrefix(p, r)}}

\* [d for d in p.iterdir() if d.is_dir() and not d.name.startswith(".")]
SubDirs(w, p) == {n \in iterdir(w, p) : is_dir(w, p \o <<n>>) /\ ~StartsWith(n, ".")}

\* load_json: the attribute map, or None (here: the empty map, which the
\* callers test with "if loaded:" exactly like None).
load_json(w, p) ==
    IF is_file(w, p) /\ w.files[p].ok THEN w.files[p].map ELSE EmptyMap

Truthy(m) == DOMAIN m # {}

\* One effective filesystem operation: it is carried out unless the process
\* is dead or is killed right before it.
FsOp(w, newDirs, newFiles) ==
    IF w.dead THEN w
    ELSE IF w.fuel = 0 THEN [w EXCEPT !.dead = TRUE]
    ELSE [w EXCEPT !.dirs = newDirs, !.files = newFiles,
                   !.fuel = IF @ > 0 THEN @ - 1 ELSE @]

\* p and the directories above it, data_dir (the empty path) included.
Prefixes(p) == {SubSeq(p, 1, k) : k \in 0..Len(p)}

\* Path.mkdir(parents=True, exist_ok=True)
mkdir(w, p) ==
    IF is_dir(w, p) THEN w ELSE FsOp(w, w.dirs \cup Prefixes(p), w.files)

\* save_json(path, data)
save_json(w, p, data) ==
    FsOp(w, w.dirs,
         [q \in DOMAIN w.files \cup {p} |-> IF q = p THEN Doc(data) ELSE w.files[q]])

\* shutil.move(src, dst): a rename; into dst when dst is an existing directory.
move(w, src, dst0) ==
    LET dst == IF is_dir(w, dst0) THEN dst0 \o <<Last(src)>> ELSE dst0
        mdirs == Under(w.dirs, src)
        mfiles == Under(DOMAIN w.files, src)
        keep == DOMAIN w.files \ mfiles
        newDom == keep \cup {Rebase(q, src, dst) : q \in mfiles}
    IN  FsOp(w, (w.dirs \ mdirs) \cup {Rebase(q, src, dst) : q \in mdirs},
             [q \in newDom |->
                 IF IsPrefix(dst, q) /\ Rebase(q, dst, src) \in mfiles
                 THEN w.files[Rebase(q, dst, src)] ELSE w.files[q]])

\* shutil.rmtree(path)
rmtree(w, p) ==
    FsOp(w, w.dirs \ Under(w.dirs, p),
         [q \in DOMAIN w.files \ Under(DOMAIN w.files, p) |-> w.files[q]])

CleanupAction(cat, brand, old, new, descr, conf) ==
    [category |-> cat, brand |-> brand, old_path |-> old, new_path |-> new,
     description |-> descr, confidence |-> conf]

\* report.actions.append(...)
AddAction(w, a) == IF w.dead THEN w ELSE [w EXCEPT !.actions = Append(@, a)]

\* report.skipped.append(...)
AddSkip(w, msg) == IF w.dead THEN w ELSE [w EXCEPT !.skipped = Append(@, msg)]

\* History only: a transform of category cat has been carried out from src
\* to dst; before/after are the documents below src and dst.
Log(w, rec) == IF w.dead THEN w ELSE [w EXCEPT !.applied = Append(@, rec)]

\* Documents of the subtree at p, by path relative to p.
DocsAt(w, p) ==
    [r \in {SubSeq(q, Len(p) + 1, Len(q)) : q \in Under(DOMAIN w.files, p)} |->
        w.files[p \o r]]

\* f(acc, item) folded over a sequence, first item first.
FoldSeq(Op(_, _), base, q) ==
    LET f[i \in 0..Len(q)] == IF i = 0 THEN base ELSE Op(f[i - 1], q[i])
    IN  f[Len(q)]

\* if p.exists(): shutil.move(p, dst)
MoveIfExists(w, src, dst) == IF exists(w, src) THEN move(w, src, dst) ELSE w

\* if p.exists(): shutil.rmtree(p)
RemoveIfExists(w, p) == IF exists(w, p) THEN rmtree(w, p) ELSE w

\* if variant_json.exists(): data = load_json(...); if data: data["id"] = ...;
\* data["name"] = ...; save_json(...)
UpdateVariantDoc(w, variant_json, new_id, new_name) ==
    IF exists(w, variant_json) /\ Truthy(load_json(w, variant_json))
    THEN save_json(w, variant_json,
             Put(Put(load_json(w, variant_json), "id", new_id), "name", new_name))
    ELSE w

\* History only: a transform of category cat has turned the store w0 into w,
\* carrying the node at src to dst; afterAt is the subtree the transform
\* wrote, type_json the FilamentType document above dst, derived whether the
\* transform created it.
Transformed(w0, w, cat, kind, src, dst, afterAt, derived, type_json) ==
    Log(w, [category |-> cat, kind |-> kind, src |-> src, dst |-> dst,
            dstExisted |-> exists(w0, dst),
            before |-> DocsAt(w0, src),
            after |-> DocsAt(w, afterAt),
            left |-> DocsAt(w, src),
            typeDerived |-> derived,
            typeDoc |-> load_json(w, type_json)])

(***************************************************************************)
(* Category 1 - swapped filament/variant layers.                           *)
(***************************************************************************)
\* The order in which iterdir() lists a directory when the script does not
\* sort it: the operating system's choice, here ascending or descending.
ListingOrders == {"asc", "desc"}

RECURSIVE ReverseSeq(_)
ReverseSeq(q) == IF Len(q) = 0 THEN << >> ELSE ReverseSeq(Tail(q)) \o <<Head(q)>>

Listing(S, order) == IF order = "asc" THEN SortedSeq(S) ELSE ReverseSeq(SortedSeq(S))

\* The body of the filament loop of detect_category_1.
Detect1Filament(w, brand, m, f, order) ==
    LET fdir == <<brand, m, f>>
        variant_dirs == SubDirs(w, fdir)
        product_variants == {d \in variant_dirs : has_material_keyword(d)}
        One(w1, product_name) ==
            LET rel_old == RelPath(<<brand, m, f, product_name>>)
                rel_new == RelPath(<<brand, m, product_name, f>>)
                a == CleanupAction(1, brand, rel_old, rel_new,
                        "Swap: filament '" \o f \o "' is a color, variant '"
                            \o product_name \o "' is a product", "auto")
            IN  [AddAction(w1, a) EXCEPT
                    !.moves = Append(@, <<fdir, <<brand, m, product_name>>, f>>)]
    IN  IF ~is_color_like(f) THEN w
        ELSE IF variant_dirs = {} THEN w
        ELSE IF product_variants = {} THEN w
        ELSE FoldSeq(One, w, Listing(product_variants, order))

detect_category_1(w, brand, order) ==
    LET brand_dir == <<brand>>
        w0 == [w EXCEPT !.moves = << >>]
    IN  IF ~is_dir(w0, brand_dir) THEN w0
        ELSE FoldSeq(LAMBDA w1, m :
                FoldSeq(LAMBDA w2, f : Detect1Filament(w2, brand, m, f, order),
                        w1, SortedSeq(SubDirs(w1, <<brand, m>>))),
                w0, SortedSeq(SubDirs(w0, brand_dir)))

\* processed_sources.add(source_filament_dir)
MarkProcessed(w, source_filament_dir) ==
    IF source_filament_dir \in Range(w.processed) THEN w
    ELSE [w EXCEPT !.processed = Append(@, source_filament_dir)]

\* if not target_filament_json.exists(): the source's filament.json is saved
\* there with the product's id and name.
DeriveProductFilament(w, source_filament_json, target_filament_json, product_name) ==
    IF ~exists(w, target_filament_json)
    THEN save_json(w, target_filament_json,
             Put(Put(load_json(w, source_filament_json), "id", product_name),
                 "name", clean_display_name(product_name)))
    ELSE w

\* MergeColor without the test '"color_hex" not in variant_data'.
MergeColor_Overwrite(variant_data, loaded) ==
    IF Truthy(loaded) /\ "color_hex" \in DOMAIN loaded
    THEN Put(variant_data, "color_hex", loaded["color_hex"])
    ELSE variant_data

\* if loaded and "color_hex" in loaded and "color_hex" not in variant_data:
\*     variant_data["color_hex"] = loaded["color_hex"]
MergeColor(variant_data, loaded) ==
    IF Truthy(loaded) /\ "color_hex" \in DOMAIN loaded
       /\ "color_hex" \notin DOMAIN variant_data
    THEN Put(variant_data, "color_hex", loaded["color_hex"])
    ELSE variant_data

\* The variant.json of the color is written below the product: the product's
\* variant document merged with the color of the source filament.
SaveColorVariant(w, source_product_dir, source_filament_json, target_variant_dir, color_name) ==
    save_json(w, target_variant_dir \o <<"variant.json">>,
        Put(Put(MergeColor(load_json(w, source_product_dir \o <<"variant.json">>),
                           load_json(w, source_filament_json)),
                "id", color_name),
            "name", clean_display_name(color_name)))

\* The body of the loop over moves of apply_category_1.
Apply1Move(w, mv, dry_run) ==
    LET source_filament_dir == mv[1]
        target_filament_dir == mv[2]
        color_name == mv[3]
        target_variant_dir == target_filament_dir \o <<color_name>>
        product_name == Last(target_filament_dir)
        target_filament_json == target_filament_dir \o <<"filament.json">>
        source_product_dir == source_filament_dir \o <<product_name>>
        source_filament_json == source_filament_dir \o <<"filament.json">>
        w1 == mkdir(w, target_filament_dir)
        w2 == DeriveProductFilament(w1, source_filament_json, target_filament_json,
                                    product_name)
        w3 == mkdir(w2, target_variant_dir)
        w4 == MoveIfExists(w3, source_product_dir \o <<"sizes.json">>,
                           target_variant_dir \o <<"sizes.json">>)
        w5 == SaveColorVariant(w4, source_product_dir, source_filament_json,
                               target_variant_dir, color_name)
        w6 == RemoveIfExists(w5, source_product_dir)
    IN  IF exists(w, target_variant_dir)
        THEN AddSkip(w, "Cat 1: " \o RelPath(target_variant_dir)
                            \o " already exists, skipping")
        ELSE IF dry_run THEN MarkProcessed(w, source_filament_dir)
        ELSE MarkProcessed(
                 Transformed(w, w6, 1, "swap", source_product_dir, target_variant_dir,
                             target_variant_dir,
                             ~exists(mkdir(w, target_filament_dir), target_filament_json),
                             target_filament_json),
                 source_filament_dir)

\* if not remaining_non_json: shutil.rmtree(source_dir)
Cleanup1(w, source_dir) ==
    IF exists(w, source_dir)
       /\ {n \in iterdir(w, source_dir) :
               is_dir(w, source_dir \o <<n>>)
               \/ n \notin {"filament.json", "material.json"}} = {}
    THEN rmtree(w, source_dir) ELSE w

\* "Clean up source filament dirs that are now empty", skipped by a dry run.
CleanupProcessed(w, dry_run) == IF dry_run THEN w ELSE FoldSeq(Cleanup1, w, w.processed)

apply_category_1(w, moves, dry_run) ==
    CleanupProcessed(
        FoldSeq(LAMBDA wa, mv : Apply1Move(wa, mv, dry_run),
                [w EXCEPT !.processed = << >>], moves),
        dry_run)

\* moves = detect_category_1(...); if self.apply and moves: apply_category_1(moves, ...)
DetectAndApply1(w, dry_run) ==
    IF ~dry_run /\ Len(w.moves) > 0 THEN apply_category_1(w, w.moves, FALSE) ELSE w

(***************************************************************************)
(* Categories 2 and 3 - prefix stripping; suffix stripping.                *)
(***************************************************************************)
\* The three nested loops over sorted(iterdir()) shared by the detectors:
\* Enter is run when a filament directory is entered, Item for each variant
\* directory listed at that moment.
ForEachVariant(Enter(_, _, _), Item(_, _, _, _), w, brand) ==
    FoldSeq(LAMBDA w1, m :
        FoldSeq(LAMBDA w2, f :
            FoldSeq(LAMBDA w3, v : Item(w3, m, f, v),
                    Enter(w2, m, f), SortedSeq(SubDirs(w2, <<brand, m, f>>))),
            w1, SortedSeq(SubDirs(w1, <<brand, m>>))),
        w, SortedSeq(SubDirs(w, <<brand>>)))

NoEnter(w, m, f) == w

\* existing_variants = {d.name for d in filament_dir.iterdir() if d.is_dir() ...}
CollectExisting(w, brand, m, f) == [w EXCEPT !.existing = SubDirs(w, <<brand, m, f>>)]

\* re.sub(r"^\s*[-–—]\s*", "", s).strip()
StripDash(s) == Strip(SubAtStart(<<WS0, Cls("-", 1, FALSE), WS0>>, s))

\* The display name of a variant stripped of a prefix (atStart) or of a
\* suffix by a rule.
StrippedName(rule, old_name, new_id, atStart) ==
    IF Len(rule.name_pattern) > 0 /\ old_name # ""
    THEN OrElse(IF atStart
                THEN StripDash(Strip(SubAtStart(rule.name_pattern, old_name)))
                ELSE Strip(SubAtEnd(rule.name_pattern, old_name)),
                clean_display_name(new_id))
    ELSE clean_display_name(new_id)

\* data.get("name", "") of the variant document (the move does not change it).
OldName(w, variant_dir) == Get(load_json(w, variant_dir \o <<"variant.json">>), "name", "")

\* shutil.move of the variant directory and the update of its variant.json.
RenameVariant(w, cat, kind, variant_dir, new_variant_dir, new_name) ==
    Transformed(w,
        UpdateVariantDoc(move(w, variant_dir, new_variant_dir),
                         new_variant_dir \o <<"variant.json">>,
                         Last(new_variant_dir), new_name),
        cat, kind, variant_dir, new_variant_dir, new_variant_dir, FALSE,
        Parent(new_variant_dir) \o <<"filament.json">>)

\* PrefixRule without the test of category_filter.
PrefixRule_Unfiltered(w, brand, m, f, variant_id, rule, dry_run, category_filter) ==
    LET prefix == rule.prefix
        new_id == DropFirst(variant_id, Len(prefix))
        cat == IF prefix # "ps_imports_" THEN 2 ELSE 3
        is_auto == rule.action = "strip"
        rel_old == RelPath(<<brand, m, f, variant_id>>)
        rel_new == RelPath(<<brand, m, f, new_id>>)
        w1 == AddAction(w, CleanupAction(cat, brand, rel_old,
                               IF is_auto THEN rel_new ELSE "",
                               "Strip prefix '" \o prefix \o "' from variant",
                               IF is_auto THEN "auto" ELSE "manual_review"))
        w2 == [w1 EXCEPT !.existing = (@ \ {variant_id}) \cup {new_id}]
        w3 == RenameVariant(w2, cat, "strip", <<brand, m, f, variant_id>>,
                            <<brand, m, f, new_id>>,
                            StrippedName(rule, OldName(w2, <<brand, m, f, variant_id>>),
                                         new_id, TRUE))
    IN  IF w.brk THEN w
        ELSE IF ~StartsWith(variant_id, prefix) THEN w
        ELSE IF new_id = "" THEN w
        ELSE IF new_id \in w.existing /\ new_id # variant_id
        THEN AddSkip(w, "Cat " \o ToString(cat) \o ": " \o rel_old \o " -> " \o new_id
                            \o " would collide with existing variant")
        ELSE IF ~is_auto THEN [w1 EXCEPT !.brk = TRUE]
        ELSE IF dry_run THEN [w2 EXCEPT !.brk = TRUE]
        ELSE [w3 EXCEPT !.brk = TRUE]

\* The body of "for prefix, rule in rules.items()" of detect_and_apply_prefixes.
PrefixRule(w, brand, m, f, variant_id, rule, dry_run, category_filter) ==
    LET prefix == rule.prefix
        new_id == DropFirst(variant_id, Len(prefix))
        cat == IF prefix # "ps_imports_" THEN 2 ELSE 3
        is_auto == rule.action = "strip"
        rel_old == RelPath(<<brand, m, f, variant_id>>)
        rel_new == RelPath(<<brand, m, f, new_id>>)
        w1 == AddAction(w, CleanupAction(cat, brand, rel_old,
                               IF is_auto THEN rel_new ELSE "",
                               "Strip prefix '" \o prefix \o "' from variant",
                               IF is_auto THEN "auto" ELSE "manual_review"))
        w2 == [w1 EXCEPT !.existing = (@ \ {variant_id}) \cup {new_id}]
        w3 == RenameVariant(w2, cat, "strip", <<brand, m, f, variant_id>>,
                            <<brand, m, f, new_id>>,
                            StrippedName(rule, OldName(w2, <<brand, m, f, variant_id>>),
                                         new_id, TRUE))
    IN  IF w.brk THEN w
        ELSE IF ~StartsWith(variant_id, prefix) THEN w
        ELSE IF new_id = "" THEN w
        ELSE IF category_filter # 0 /\ category_filter # cat THEN w
        ELSE IF new_id \in w.existing /\ new_id # variant_id
        THEN AddSkip(w, "Cat " \o ToString(cat) \o ": " \o rel_old \o " -> " \o new_id
                            \o " would collide with existing variant")
        ELSE IF ~is_auto THEN [w1 EXCEPT !.brk = TRUE]
        ELSE IF dry_run THEN [w2 EXCEPT !.brk = TRUE]
        ELSE [w3 EXCEPT !.brk = TRUE]

detect_and_apply_prefixes(w, brand, dry_run, category_filter) ==
    LET rules == PREFIX_RULES(brand)
    IN  IF Len(rules) = 0 THEN w
        ELSE IF ~is_dir(w, <<brand>>) THEN w
        ELSE ForEachVariant(
                LAMBDA w1, m, f : CollectExisting(w1, brand, m, f),
                LAMBDA w1, m, f, v :
                    FoldSeq(LAMBDA w2, rule :
                                PrefixRule(w2, brand, m, f, v, rule, dry_run, category_filter),
                            [w1 EXCEPT !.brk = FALSE], rules),
                w, brand)

\* The body of "for suffix, rule in rules.items()" of detect_and_apply_suffix_strips.
SuffixRule(w, brand, m, f, variant_id, rule, dry_run) ==
    LET suffix == rule.prefix
        new_id == DropLast(variant_id, Len(suffix))
        rel_old == RelPath(<<brand, m, f, variant_id>>)
        rel_new == RelPath(<<brand, m, f, new_id>>)
        w1 == AddAction(w, CleanupAction(2, brand, rel_old, rel_new,
                               "Strip suffix '" \o suffix \o "' from variant", "auto"))
        w2 == [w1 EXCEPT !.existing = (@ \ {variant_id}) \cup {new_id}]
        w3 == RenameVariant(w2, 2, "strip", <<brand, m, f, variant_id>>,
                            <<brand, m, f, new_id>>,
                            StrippedName(rule, OldName(w2, <<brand, m, f, variant_id>>),
                                         new_id, FALSE))
    IN  IF w.brk THEN w
        ELSE IF ~EndsWith(variant_id, suffix) THEN w
        ELSE IF new_id = "" THEN w
        ELSE IF new_id \in w.existing /\ new_id # variant_id
        THEN AddSkip(w, "Cat 2: " \o rel_old \o " -> " \o new_id
                            \o " would collide with existing variant")
        ELSE IF dry_run THEN [w2 EXCEPT !.brk = TRUE]
        ELSE [w3 EXCEPT !.brk = TRUE]

detect_and_apply_suffix_strips(w, brand, dry_run) ==
    LET rules == SUFFIX_STRIP_RULES(brand)
    IN  IF Len(rules) = 0 THEN w
        ELSE IF ~is_dir(w, <<brand>>) THEN w
        ELSE ForEachVariant(
                LAMBDA w1, m, f : CollectExisting(w1, brand, m, f),
                LAMBDA w1, m, f, v :
                    FoldSeq(LAMBDA w2, rule : SuffixRule(w2, brand, m, f, v, rule, dry_run),
                            [w1 EXCEPT !.brk = FALSE], rules),
                w, brand)

(***************************************************************************)
(* Category 7 - product line prefix / suffix at variant level.             *)
(***************************************************************************)
\* if not new_filament_json.exists(): the source's filament.json is saved
\* there with the new id and "<Product Line> <source name>" as its name.
DeriveLineFilament(w, filament_dir, new_filament_dir, product_line) ==
    IF ~exists(w, new_filament_dir \o <<"filament.json">>)
    THEN save_json(w, new_filament_dir \o <<"filament.json">>,
             Put(Put(load_json(w, filament_dir \o <<"filament.json">>),
                     "id", Last(new_filament_dir)),
                 "name", clean_display_name(product_line) \o " "
                             \o Get(load_json(w, filament_dir \o <<"filament.json">>),
                                    "name", clean_display_name(Last(filament_dir)))))
    ELSE w

\* UpdateVariantDoc writing a document that holds the id and the name only.
FreshVariantDoc(w, variant_json, new_id, new_name) ==
    IF exists(w, variant_json) /\ Truthy(load_json(w, variant_json))
    THEN save_json(w, variant_json, Put(Put(EmptyMap, "id", new_id), "name", new_name))
    ELSE w

\* UpdateVariantDoc leaving the id of the document as it was.
NameVariantDoc(w, variant_json, new_id, new_name) ==
    IF exists(w, variant_json) /\ Truthy(load_json(w, variant_json))
    THEN save_json(w, variant_json, Put(load_json(w, variant_json), "name", new_name))
    ELSE w

\* MoveToProductLine writing a fresh variant document instead of updating
\* the one it moved.
MoveToProductLine_Fresh(w, variant_dir, filament_dir, new_filament_dir, product_line, remainder) ==
    LET target_variant_dir == new_filament_dir \o <<remainder>>
        new_filament_json == new_filament_dir \o <<"filament.json">>
        w1 == mkdir(w, new_filament_dir)
        w2 == DeriveLineFilament(w1, filament_dir, new_filament_dir, product_line)
        w3 == move(w2, variant_dir, target_variant_dir)
        w4 == FreshVariantDoc(w3, target_variant_dir \o <<"variant.json">>,
                              remainder, clean_display_name(remainder))
    IN  Transformed(w, w4, 7, "move", variant_dir, target_variant_dir, target_variant_dir,
                    ~exists(mkdir(w, new_filament_dir), new_filament_json),
                    new_filament_json)

\* MoveToProductLine updating the name of the moved document but not its id.
MoveToProductLine_KeepId(w, variant_dir, filament_dir, new_filament_dir, product_line, remainder) ==
    LET target_variant_dir == new_filament_dir \o <<remainder>>
        new_filament_json == new_filament_dir \o <<"filament.json">>
        w1 == mkdir(w, new_filament_dir)
        w2 == DeriveLineFilament(w1, filament_dir, new_filament_dir, product_line)
        w3 == move(w2, variant_dir, target_variant_dir)
        w4 == NameVariantDoc(w3, target_variant_dir \o <<"variant.json">>,
                             remainder, clean_display_name(remainder))
    IN  Transformed(w, w4, 7, "move", variant_dir, target_variant_dir, target_variant_dir,
                    ~exists(mkdir(w, new_filament_dir), new_filament_json),
                    new_filament_json)

\* "--- Apply the structural move ---" of the two category-7 detectors.
MoveToProductLine(w, variant_dir, filament_dir, new_filament_dir, product_line, remainder) ==
    LET target_variant_dir == new_filament_dir \o <<remainder>>
        new_filament_json == new_filament_dir \o <<"filament.json">>
        w1 == mkdir(w, new_filament_dir)
        w2 == DeriveLineFilament(w1, filament_dir, new_filament_dir, product_line)
        w3 == move(w2, variant_dir, target_variant_dir)
        w4 == UpdateVariantDoc(w3, target_variant_dir \o <<"variant.json">>,
                               remainder, clean_display_name(remainder))
    IN  Transformed(w, w4, 7, "move", variant_dir, target_variant_dir, target_variant_dir,
                    ~exists(mkdir(w, new_filament_dir), new_filament_json),
                    new_filament_json)

\* ProposeProductLine naming the new FilamentType after the product line alone.
ProposeProductLine_LineOnly(w, brand, m, f, variant_id, affix, kindText, product_line, remainder, dry_run) ==
    LET new_filament_id == product_line
        new_filament_dir == <<brand, m, new_filament_id>>
        target_variant_dir == new_filament_dir \o <<remainder>>
        rel_old == RelPath(<<brand, m, f, variant_id>>)
        rel_new == RelPath(target_variant_dir)
        w1 == AddAction(w, CleanupAction(7, brand, rel_old, rel_new,
                  "Move to product line filament '" \o new_filament_id \o "'"
                      \o (IF kindText = "suffix" THEN " (suffix)" ELSE ""), "auto"))
        w2 == [w1 EXCEPT !.proposed = @ \cup {target_variant_dir}]
    IN  IF remainder = ""
        THEN [AddSkip(w, "Cat 7: " \o rel_old \o " -> empty after stripping "
                             \o kindText \o " '" \o affix \o "'") EXCEPT !.brk = TRUE]
        ELSE IF exists(w, target_variant_dir) \/ target_variant_dir \in w.proposed
        THEN [AddSkip(w, "Cat 7: " \o rel_old \o " -> " \o rel_new \o " would collide")
                 EXCEPT !.brk = TRUE]
        ELSE IF dry_run THEN [w2 EXCEPT !.brk = TRUE]
        ELSE [MoveToProductLine(w2, <<brand, m, f, variant_id>>, <<brand, m, f>>,
                                new_filament_dir, product_line, remainder)
                 EXCEPT !.brk = TRUE]

\* ProposeProductLine creating the target FilamentType before it knows
\* whether the Variant is moved.
ProposeProductLine_Eager(w, brand, m, f, variant_id, affix, kindText, product_line, remainder, dry_run) ==
    LET new_filament_id == product_line \o "_" \o f
        new_filament_dir == <<brand, m, new_filament_id>>
        target_variant_dir == new_filament_dir \o <<remainder>>
        rel_old == RelPath(<<brand, m, f, variant_id>>)
        rel_new == RelPath(target_variant_dir)
        w1 == AddAction(w, CleanupAction(7, brand, rel_old, rel_new,
                  "Move to product line filament '" \o new_filament_id \o "'"
                      \o (IF kindText = "suffix" THEN " (suffix)" ELSE ""), "auto"))
        w2 == [w1 EXCEPT !.proposed = @ \cup {target_variant_dir}]
    IN  IF remainder = ""
        THEN [AddSkip(IF dry_run THEN w ELSE mkdir(w, new_filament_dir),
                      "Cat 7: " \o rel_old \o " -> empty after stripping "
                             \o kindText \o " '" \o affix \o "'") EXCEPT !.brk = TRUE]
        ELSE IF exists(w, target_variant_dir) \/ target_variant_dir \in w.proposed
        THEN [AddSkip(w, "Cat 7: " \o rel_old \o " -> " \o rel_new \o " would collide")
                 EXCEPT !.brk = TRUE]
        ELSE IF dry_run THEN [w2 EXCEPT !.brk = TRUE]
        ELSE [MoveToProductLine(w2, <<brand, m, f, variant_id>>, <<brand, m, f>>,
                                new_filament_dir, product_line, remainder)
                 EXCEPT !.brk = TRUE]

\* What both category-7 detectors do once the remainder is known.
ProposeProductLine(w, brand, m, f, variant_id, affix, kindText, product_line, remainder, dry_run) ==
    LET new_filament_id == product_line \o "_" \o f
        new_filament_dir == <<brand, m, new_filament_id>>
        target_variant_dir == new_filament_dir \o <<remainder>>
        rel_old == RelPath(<<brand, m, f, variant_id>>)
        rel_new == RelPath(target_variant_dir)
        w1 == AddAction(w, CleanupAction(7, brand, rel_old, rel_new,
                  "Move to product line filament '" \o new_filament_id \o "'"
                      \o (IF kindText = "suffix" THEN " (suffix)" ELSE ""), "auto"))
        w2 == [w1 EXCEPT !.proposed = @ \cup {target_variant_dir}]
    IN  IF remainder = ""
        THEN [AddSkip(w, "Cat 7: " \o rel_old \o " -> empty after stripping "
                             \o kindText \o " '" \o affix \o "'") EXCEPT !.brk = TRUE]
        ELSE IF exists(w, target_variant_dir) \/ target_variant_dir \in w.proposed
        THEN [AddSkip(w, "Cat 7: " \o rel_old \o " -> " \o rel_new \o " would collide")
                 EXCEPT !.brk = TRUE]
        ELSE IF dry_run THEN [w2 EXCEPT !.brk = TRUE]
        ELSE [MoveToProductLine(w2, <<brand, m, f, variant_id>>, <<brand, m, f>>,
                                new_filament_dir, product_line, remainder)
                 EXCEPT !.brk = TRUE]

\* ProductLinePrefix leaving the SKU code in the Variant id.
ProductLinePrefix_KeepSku(w, brand, m, f, variant_id, prefix, dry_run) ==
    LET r0 == DropFirst(variant_id, Len(prefix))
        remainder == r0
        stripped == RStripChars(prefix, "_")
        product_line == IF stripped # "" THEN stripped ELSE prefix
    IN  IF w.brk THEN w
        ELSE IF ~StartsWith(variant_id, prefix) THEN w
        ELSE ProposeProductLine(w, brand, m, f, variant_id, prefix, "prefix",
                                product_line, remainder, dry_run)

\* The body of "for prefix in prefixes" of detect_and_apply_product_lines.
ProductLinePrefix(w, brand, m, f, variant_id, prefix, dry_run) ==
    LET r0 == DropFirst(variant_id, Len(prefix))
        n == IF brand \in PRODUCT_LINE_SKU_PATTERNS THEN SkuMatchEnd(r0) ELSE -1
        remainder == IF n >= 0 THEN DropFirst(r0, n) ELSE r0
        stripped == RStripChars(prefix, "_")
        product_line == IF stripped # "" THEN stripped ELSE prefix
    IN  IF w.brk THEN w
        ELSE IF ~StartsWith(variant_id, prefix) THEN w
        ELSE ProposeProductLine(w, brand, m, f, variant_id, prefix, "prefix",
                                product_line, remainder, dry_run)

\* detect_and_apply_product_lines trying the prefixes in the reverse order.
detect_and_apply_product_lines_Reversed(w, brand, dry_run) ==
    LET prefixes == ReverseSeq(PRODUCT_LINE_PREFIXES(brand))
    IN  IF Len(prefixes) = 0 THEN w
        ELSE IF ~is_dir(w, <<brand>>) THEN w
        ELSE ForEachVariant(NoEnter,
                LAMBDA w1, m, f, v :
                    FoldSeq(LAMBDA w2, prefix :
                                ProductLinePrefix(w2, brand, m, f, v, prefix, dry_run),
                            [w1 EXCEPT !.brk = FALSE], prefixes),
                [w EXCEPT !.proposed = {}], brand)

detect_and_apply_product_lines(w, brand, dry_run) ==
    LET prefixes == PRODUCT_LINE_PREFIXES(brand)
    IN  IF Len(prefixes) = 0 THEN w
        ELSE IF ~is_dir(w, <<brand>>) THEN w
        ELSE ForEachVariant(NoEnter,
                LAMBDA w1, m, f, v :
                    FoldSeq(LAMBDA w2, prefix :
                                ProductLinePrefix(w2, brand, m, f, v, prefix, dry_run),
                            [w1 EXCEPT !.brk = FALSE], prefixes),
                [w EXCEPT !.proposed = {}], brand)

\* The body of "for suffix in suffixes" of detect_and_apply_product_line_suffixes.
ProductLineSuffix(w, brand, m, f, variant_id, suffix, dry_run) ==
    LET remainder == DropLast(variant_id, Len(suffix))
        stripped == LStripChars(suffix, "_")
        product_line == IF stripped # "" THEN stripped ELSE suffix
    IN  IF w.brk THEN w
        ELSE IF ~EndsWith(variant_id, suffix) THEN w
        ELSE ProposeProductLine(w, brand, m, f, variant_id, suffix, "suffix",
                                product_line, remainder, dry_run)

detect_and_apply_product_line_suffixes(w, brand, dry_run) ==
    LET suffixes == PRODUCT_LINE_SUFFIXES(brand)
    IN  IF Len(suffixes) = 0 THEN w
        ELSE IF ~is_dir(w, <<brand>>) THEN w
        ELSE ForEachVariant(NoEnter,
                LAMBDA w1, m, f, v :
                    FoldSeq(LAMBDA w2, suffix :
                                ProductLineSuffix(w2, brand, m, f, v, suffix, dry_run),
                            [w1 EXCEPT !.brk = FALSE], suffixes),
                [w EXCEPT !.proposed = {}], brand)

(***************************************************************************)
(* Category 5 - colors merged into filament names.                         *)
(***************************************************************************)
\* for i in range(1, min(3, len(parts))): the first (head, tail) that matches,
\* << >> when none does.
ColorSplitMatch(filament_id) ==
    LET parts == Split(filament_id, "_")
        n == Len(parts)
        top == IF n < 3 THEN n - 1 ELSE 2
        tail(i) == Join(SubSeq(parts, n - i + 1, n), "_")
        head(i) == Join(SubSeq(parts, 1, n - i), "_")
        ok(i) == tail(i) \in KNOWN_COLORS /\ head(i) # "" /\ has_material_keyword(head(i))
    IN  IF \E i \in 1..top : ok(i)
        THEN LET i == CHOOSE j \in 1..top : ok(j) /\ \A k \in 1..(j - 1) : ~ok(k)
             IN  <<head(i), tail(i)>>
        ELSE << >>

\* DeriveBaseFilament without filament_data.pop("color_hex", None).
DeriveBaseFilament_KeepColor(w, target_filament_json, loaded, matched_head) ==
    IF ~exists(w, target_filament_json)
    THEN save_json(w, target_filament_json,
             Put(Put(loaded, "id", matched_head),
                 "name", clean_display_name(matched_head)))
    ELSE w

\* if not target_filament_json.exists(): the filament.json of the color-named
\* filament is saved there with the base id and name and without its color.
DeriveBaseFilament(w, target_filament_json, loaded, matched_head) ==
    IF ~exists(w, target_filament_json)
    THEN save_json(w, target_filament_json,
             Del(Put(Put(loaded, "id", matched_head),
                     "name", clean_display_name(matched_head)),
                 "color_hex"))
    ELSE w

\* variant_data = {"id": ..., "name": ...}; if color_hex: variant_data["color_hex"] = ...
\* (None and "" are both falsy in "if color_hex:")
ColorVariantDoc(matched_tail, color_hex) ==
    IF color_hex # ""
    THEN Put([id |-> matched_tail, name |-> clean_display_name(matched_tail)],
             "color_hex", color_hex)
    ELSE [id |-> matched_tail, name |-> clean_display_name(matched_tail)]

\* The body of "for sub in sorted(filament_dir.iterdir())".
MoveSub(w, filament_dir, target_filament_dir, sub) ==
    IF is_dir(w, filament_dir \o <<sub>>) /\ ~StartsWith(sub, ".")
       /\ ~exists(w, target_filament_dir \o <<sub>>)
    THEN move(w, filament_dir \o <<sub>>, target_filament_dir \o <<sub>>)
    ELSE w

MoveSubDirs(w, filament_dir, target_filament_dir) ==
    FoldSeq(LAMBDA wa, sub : MoveSub(wa, filament_dir, target_filament_dir, sub),
            w, SortedSeq(iterdir(w, filament_dir)))

\* RemoveIfNoDirs without the test for remaining directories.
RemoveIfNoDirs_Always(w, filament_dir) == rmtree(w, filament_dir)

\* remaining = entries other than filament.json and material.json;
\* if not any(r.is_dir() for r in remaining): shutil.rmtree(filament_dir)
RemoveIfNoDirs(w, filament_dir) ==
    IF ~\E n \in iterdir(w, filament_dir) :
           /\ n \notin {"filament.json", "material.json"}
           /\ is_dir(w, filament_dir \o <<n>>)
    THEN rmtree(w, filament_dir) ELSE w

\* "--- Apply the color split ---"
SplitFilament(w, filament_dir, matched_head, matched_tail) ==
    LET target_filament_dir == Parent(filament_dir) \o <<matched_head>>
        target_variant_dir == target_filament_dir \o <<matched_tail>>
        target_filament_json == target_filament_dir \o <<"filament.json">>
        loaded == load_json(mkdir(w, target_filament_dir), filament_dir \o <<"filament.json">>)
        w1 == mkdir(w, target_filament_dir)
        w2 == DeriveBaseFilament(w1, target_filament_json, loaded, matched_head)
        w3 == mkdir(w2, target_variant_dir)
        w4 == save_json(w3, target_variant_dir \o <<"variant.json">>,
                        ColorVariantDoc(matched_tail, Get(loaded, "color_hex", "")))
        w5 == MoveIfExists(w4, filament_dir \o <<"sizes.json">>,
                           target_variant_dir \o <<"sizes.json">>)
        w6 == MoveSubDirs(w5, filament_dir, target_filament_dir)
        w7 == RemoveIfNoDirs(w6, filament_dir)
    IN  Transformed(w, w7, 5, "split", filament_dir, target_variant_dir,
                    target_filament_dir,
                    ~exists(mkdir(w, target_filament_dir), target_filament_json),
                    target_filament_json)

\* The body of "for filament_dir in filament_dirs" of detect_and_apply_color_split.
ColorSplitFilament(w, brand, m, filament_id, dry_run) ==
    LET mt == ColorSplitMatch(filament_id)
        matched_head == mt[1]
        matched_tail == mt[2]
        rel_old == RelPath(<<brand, m, filament_id>>)
        rel_new == RelPath(<<brand, m, matched_head, matched_tail>>)
        w1 == AddAction(w, CleanupAction(5, brand, rel_old, rel_new,
                  "Split filament '" \o filament_id \o "' into '"
                      \o matched_head \o "/" \o matched_tail \o "'", "auto"))
    IN  IF mt = << >> THEN w
        ELSE IF exists(w, <<brand, m, matched_head, matched_tail>>)
        THEN AddSkip(w, "Cat 5: " \o rel_old \o " -> " \o rel_new \o " would collide")
        ELSE IF dry_run THEN w1
        ELSE SplitFilament(w1, <<brand, m, filament_id>>, matched_head, matched_tail)

detect_and_apply_color_split(w, brand, dry_run) ==
    IF ~is_dir(w, <<brand>>) THEN w
    ELSE FoldSeq(LAMBDA w1, m :
            FoldSeq(LAMBDA w2, f : ColorSplitFilament(w2, brand, m, f, dry_run),
                    w1, SortedSeq(SubDirs(w1, <<brand, m>>))),
            w, SortedSeq(SubDirs(w, <<brand>>)))

(***************************************************************************)
(* Category 8 - universal common-prefix detection.                         *)
(***************************************************************************)
\* The body of "for variant_dir in variant_dirs" of _apply_strip.
StripOne(w, brand, m, f, old_id, prefix, dry_run) ==
    LET new_id == DropFirst(old_id, Len(prefix))
        rel_old == RelPath(<<brand, m, f, old_id>>)
        rel_new == RelPath(<<brand, m, f, new_id>>)
        w1 == AddAction(w, CleanupAction(8, brand, rel_old, rel_new,
                  "Strip common prefix '" \o prefix \o "'", "auto"))
        w2 == [w1 EXCEPT !.existing = (@ \ {old_id}) \cup {new_id}]
    IN  IF new_id = "" THEN w
        ELSE IF new_id \in w.existing /\ new_id # old_id
        THEN AddSkip(w, "Cat 8: " \o rel_old \o " -> " \o new_id \o " would collide")
        ELSE IF dry_run THEN w2
        ELSE RenameVariant(w2, 8, "strip", <<brand, m, f, old_id>>, <<brand, m, f, new_id>>,
                           clean_variant_name(OldName(w2, <<brand, m, f, old_id>>),
                                              prefix, new_id))

apply_strip(w, brand, m, f, variant_names, prefix, dry_run) ==
    FoldSeq(LAMBDA w1, v : StripOne(w1, brand, m, f, v, prefix, dry_run),
            [w EXCEPT !.existing = Range(variant_names)], variant_names)

\* if not new_filament_json.exists(): the source's filament.json is saved
\* there with the new id and its display name.
DeriveMovedFilament(w, filament_dir, new_filament_dir) ==
    IF ~exists(w, new_filament_dir \o <<"filament.json">>)
    THEN save_json(w, new_filament_dir \o <<"filament.json">>,
             Put(Put(load_json(w, filament_dir \o <<"filament.json">>),
                     "id", Last(new_filament_dir)),
                 "name", id_to_display_name(Last(new_filament_dir))))
    ELSE w

\* The variant.json of the moved variant gets the new id, and its name is
\* cleaned of the prefix.
UpdateMovedVariant(w, variant_json, prefix, new_id) ==
    UpdateVariantDoc(w, variant_json, new_id,
        clean_variant_name(Get(load_json(w, variant_json), "name", ""), prefix, new_id))

\* The apply part of the loop body of _apply_move.
MoveOne(w, variant_dir, filament_dir, new_filament_dir, prefix, new_id) ==
    LET target_variant_dir == new_filament_dir \o <<new_id>>
        new_filament_json == new_filament_dir \o <<"filament.json">>
        w1 == mkdir(w, new_filament_dir)
        w2 == DeriveMovedFilament(w1, filament_dir, new_filament_dir)
        w3 == move(w2, variant_dir, target_variant_dir)
        w4 == UpdateMovedVariant(w3, target_variant_dir \o <<"variant.json">>, prefix, new_id)
    IN  Transformed(w, w4, 8, "move", variant_dir, target_variant_dir, target_variant_dir,
                    ~exists(mkdir(w, new_filament_dir), new_filament_json),
                    new_filament_json)

\* MoveVariant that moves the variant under its old id, prefix included.
MoveVariant_KeepId(w, brand, m, filament_id, new_filament_id, old_id, prefix, dry_run) ==
    LET new_id == old_id
        filament_dir == <<brand, m, filament_id>>
        new_filament_dir == <<brand, m, new_filament_id>>
        target_variant_dir == new_filament_dir \o <<new_id>>
        rel_old == RelPath(<<brand, m, filament_id, old_id>>)
        rel_new == RelPath(target_variant_dir)
        w3 == [AddAction(w, CleanupAction(8, brand, rel_old, rel_new,
                   "Move to new filament '" \o new_filament_id
                       \o "', strip prefix '" \o prefix \o "'", "auto"))
                 EXCEPT !.proposed = @ \cup {target_variant_dir}]
    IN  IF new_id = ""
        THEN AddSkip(w, "Cat 8: " \o rel_old \o " -> empty after stripping '"
                            \o prefix \o "'")
        ELSE IF exists(w, target_variant_dir) \/ target_variant_dir \in w.proposed
        THEN AddSkip(w, "Cat 8: " \o rel_old \o " -> " \o rel_new \o " would collide")
        ELSE IF dry_run THEN w3
        ELSE MoveOne(w3, filament_dir \o <<old_id>>, filament_dir,
                     new_filament_dir, prefix, new_id)

\* The body of "for variant_dir in variant_dirs" of _apply_move.
MoveVariant(w, brand, m, filament_id, new_filament_id, old_id, prefix, dry_run) ==
    LET new_id == DropFirst(old_id, Len(prefix))
        filament_dir == <<brand, m, filament_id>>
        new_filament_dir == <<brand, m, new_filament_id>>
        target_variant_dir == new_filament_dir \o <<new_id>>
        rel_old == RelPath(<<brand, m, filament_id, old_id>>)
        rel_new == RelPath(target_variant_dir)
        w3 == [AddAction(w, CleanupAction(8, brand, rel_old, rel_new,
                   "Move to new filament '" \o new_filament_id
                       \o "', strip prefix '" \o prefix \o "'", "auto"))
                 EXCEPT !.proposed = @ \cup {target_variant_dir}]
    IN  IF new_id = ""
        THEN AddSkip(w, "Cat 8: " \o rel_old \o " -> empty after stripping '"
                            \o prefix \o "'")
        ELSE IF exists(w, target_variant_dir) \/ target_variant_dir \in w.proposed
        THEN AddSkip(w, "Cat 8: " \o rel_old \o " -> " \o rel_new \o " would collide")
        ELSE IF dry_run THEN w3
        ELSE MoveOne(w3, filament_dir \o <<old_id>>, filament_dir,
                     new_filament_dir, prefix, new_id)

\* RemoveEmptied removing the material directory of the emptied filament.
RemoveEmptied_Material(w, filament_dir, dry_run) ==
    IF dry_run THEN w
    ELSE IF SubDirs(w, filament_dir) = {} /\ exists(w, filament_dir)
    THEN rmtree(w, Parent(filament_dir)) ELSE w

\* "Clean up old filament dir if empty (no remaining variant subdirs)",
\* skipped by a dry run.
RemoveEmptied(w, filament_dir, dry_run) ==
    IF dry_run THEN w
    ELSE IF SubDirs(w, filament_dir) = {} /\ exists(w, filament_dir)
    THEN rmtree(w, filament_dir) ELSE w

apply_move(w, brand, m, filament_id, variant_names, prefix, dry_run) ==
    RemoveEmptied(
        FoldSeq(LAMBDA w1, old_id :
                    MoveVariant(w1, brand, m, filament_id,
                                RStripChars(prefix, "_") \o "_" \o filament_id,
                                old_id, prefix, dry_run),
                [w EXCEPT !.proposed = {}], variant_names),
        <<brand, m, filament_id>>, dry_run)

\* The body of "for filament_dir in filament_dirs" of detect_and_apply_common_prefix.
CommonPrefixFilament(w, brand, m, filament_id, dry_run) ==
    LET variant_names == SortedSeq(SubDirs(w, <<brand, m, filament_id>>))
        cp == compute_common_prefix(variant_names)
    IN  IF Len(variant_names) < 2 THEN w
        ELSE IF cp = "" \/ Len(cp) < 3 THEN w
        ELSE IF ~\A i \in 1..Len(variant_names) : StartsWith(variant_names[i], cp) THEN w
        ELSE IF prefix_implied_by_filament(cp, filament_id, brand)
        THEN apply_strip(w, brand, m, filament_id, variant_names, cp, dry_run)
        ELSE apply_move(w, brand, m, filament_id, variant_names, cp, dry_run)

detect_and_apply_common_prefix(w, brand, dry_run) ==
    IF ~is_dir(w, <<brand>>) THEN w
    ELSE FoldSeq(LAMBDA w1, m :
            FoldSeq(LAMBDA w2, f : CommonPrefixFilament(w2, brand, m, f, dry_run),
                    w1, SortedSeq(SubDirs(w1, <<brand, m>>))),
            w, SortedSeq(SubDirs(w, <<brand>>)))

(***************************************************************************)
(* Category 9 - broken display names.                                      *)
(***************************************************************************)
\* "Detect leftover prefix content": a name that ends with the ID-based name
\* and is significantly longer is replaced by it.
DropLeftover(new_name, expected) ==
    IF new_name # expected /\ EndsWith(Lower(new_name), Lower(expected))
       /\ Len(new_name) > Len(expected) + 2
    THEN expected ELSE new_name

\* The name detect_and_apply_name_fixes computes for a variant directory.
FixedName(name, variant_id) ==
    DropLeftover(OrElse(Strip(CollapseSpaces(RemoveEmptyParens(name))),
                        clean_display_name(variant_id)),
                 clean_display_name(variant_id))

\* FixName without its "if dry_run: continue".
FixName_Unguarded(w, brand, rel, variant_json, data, name, new_name, dry_run) ==
    IF new_name = name THEN w
    ELSE save_json(AddAction(w, CleanupAction(9, brand, rel, "",
                       "Fix display name: '" \o name \o "' -> '" \o new_name \o "'", "auto")),
                   variant_json, Put(data, "name", new_name))

\* The finding is recorded when the fixed name differs; the name is written
\* unless the run is a dry run.
FixName(w, brand, rel, variant_json, data, name, new_name, dry_run) ==
    IF new_name = name THEN w
    ELSE IF dry_run
    THEN AddAction(w, CleanupAction(9, brand, rel, "",
             "Fix display name: '" \o name \o "' -> '" \o new_name \o "'", "auto"))
    ELSE save_json(AddAction(w, CleanupAction(9, brand, rel, "",
                       "Fix display name: '" \o name \o "' -> '" \o new_name \o "'", "auto")),
                   variant_json, Put(data, "name", new_name))

\* The body of the variant loop of detect_and_apply_name_fixes.
NameFixVariant(w, brand, m, f, v, dry_run) ==
    LET variant_json == <<brand, m, f, v, "variant.json">>
        data == load_json(w, variant_json)
        name == Get(data, "name", "")
    IN  IF ~exists(w, variant_json) THEN w
        ELSE IF ~Truthy(data) THEN w
        ELSE IF name = "" THEN w
        ELSE FixName(w, brand, RelPath(<<brand, m, f, v>>), variant_json, data, name,
                     FixedName(name, v), dry_run)

detect_and_apply_name_fixes(w, brand, dry_run) ==
    IF ~is_dir(w, <<brand>>) THEN w
    ELSE ForEachVariant(NoEnter,
            LAMBDA w1, m, f, v : NameFixVariant(w1, brand, m, f, v, dry_run),
            w, brand)

(***************************************************************************)
(* Categories 4 and 6 - report-only audits.                                *)
(***************************************************************************)
\* TechSpecVariant with the variant's path passed as new_path as well.
TechSpecVariant_NewPath(w, brand, m, f, variant_id, already_fixed) ==
    LET rel == RelPath(<<brand, m, f, variant_id>>)
        hits == {i \in 1..Len(TECH_SPEC_PATTERNS) : TechSpecMatch(i, variant_id)}
        first == CHOOSE i \in hits : \A j \in hits : i <= j
    IN  IF rel \in already_fixed THEN w
        ELSE IF hits = {} THEN w
        ELSE AddAction(w, CleanupAction(4, brand, rel, rel,
                 "Technical spec in variant name (matched: " \o TECH_SPEC_SOURCE[first] \o ")",
                 "manual_review"))

\* The body of the variant loop of detect_category_4.
TechSpecVariant(w, brand, m, f, variant_id, already_fixed) ==
    LET rel == RelPath(<<brand, m, f, variant_id>>)
        hits == {i \in 1..Len(TECH_SPEC_PATTERNS) : TechSpecMatch(i, variant_id)}
        first == CHOOSE i \in hits : \A j \in hits : i <= j
    IN  IF rel \in already_fixed THEN w
        ELSE IF hits = {} THEN w
        ELSE AddAction(w, CleanupAction(4, brand, rel, "",
                 "Technical spec in variant name (matched: " \o TECH_SPEC_SOURCE[first] \o ")",
                 "manual_review"))

detect_category_4(w, brand, already_fixed) ==
    IF ~is_dir(w, <<brand>>) THEN w
    ELSE ForEachVariant(NoEnter,
            LAMBDA w1, m, f, v : TechSpecVariant(w1, brand, m, f, v, already_fixed),
            w, brand)
\* LongNameVariant recording its finding with confidence auto.
LongNameVariant_Auto(w, brand, m, f, variant_id, already_fixed) ==
    LET rel == RelPath(<<brand, m, f, variant_id>>)
    IN  IF Len(variant_id) <= MAX_VARIANT_LENGTH THEN w
        ELSE IF rel \in already_fixed THEN w
        ELSE AddAction(w, CleanupAction(6, brand, rel, "",
                 "Variant name is " \o ToString(Len(variant_id))
                     \o " chars (max recommended: " \o ToString(MAX_VARIANT_LENGTH) \o ")",
                 "auto"))

\* The body of the variant loop of detect_category_6.
LongNameVariant(w, brand, m, f, variant_id, already_fixed) ==
    LET rel == RelPath(<<brand, m, f, variant_id>>)
    IN  IF Len(variant_id) <= MAX_VARIANT_LENGTH THEN w
        ELSE IF rel \in already_fixed THEN w
        ELSE AddAction(w, CleanupAction(6, brand, rel, "",
                 "Variant name is " \o ToString(Len(variant_id))
                     \o " chars (max recommended: " \o ToString(MAX_VARIANT_LENGTH) \o ")",
                 "manual_review"))

detect_category_6(w, brand, already_fixed) ==
    IF ~is_dir(w, <<brand>>) THEN w
    ELSE ForEachVariant(NoEnter,
            LAMBDA w1, m, f, v : LongNameVariant(w1, brand, m, f, v, already_fixed),
            w, brand)

(***************************************************************************)
(* Input trees.  A tree is built from at most MaxSeeds seed nodes of one   *)
(* group; a seed is a FilamentType or a Variant directory with its         *)
(* documents.  Every directory's document carries the directory name as    *)
(* its id, as the importer writes it.                                      *)
(***************************************************************************)
Seed(g, p, n, d, h, sz) ==
    [grp |-> g, path |-> p, name |-> n, doc |-> d, hex |-> h, sizes |-> sz]

SeedPool ==
    { \* 1: colors at filament level (category 1)
      Seed(1, <<"acme", "TPU", "blue", "flexible_tpu">>, "Flexible TPU", "ok", "#0000ff", TRUE),
      Seed(1, <<"acme", "TPU", "blue", "flexible_tpu">>, "", "corrupt", "", FALSE),
      Seed(1, <<"acme", "TPU", "flexible_tpu", "blue">>, "Blue", "ok", "#0000aa", FALSE),
      Seed(1, <<"acme", "TPU", "dark_blue", "speed_tpu">>, "Speed TPU", "ok", "#000055", FALSE),
      Seed(1, <<"acme", "TPU", "dark_red", "speed_tpu">>, "Speed TPU", "ok", "", FALSE),
      Seed(1, <<"acme", "TPU", "blue", "speed_tpu">>, "Speed TPU", "ok", "", FALSE),
      \* 2: colors merged into filament names (category 5)
      Seed(2, <<"acme", "PLA", "silk_pla_red">>, "Silk PLA Red", "ok", "#ff0000", TRUE),
      Seed(2, <<"acme", "PLA", "silk_pla_red", "spool">>, "Spool", "ok", "", TRUE),
      Seed(2, <<"acme", "PLA", "silk_pla", "red">>, "Red", "ok", "", FALSE),
      Seed(2, <<"acme", "PLA", "silk_pla", "spool">>, "Spool", "ok", "", FALSE),
      Seed(2, <<"acme", "PLA", "pla_red_blue">>, "PLA Red Blue", "ok", "", FALSE),
      Seed(2, <<"acme", "PLA", "silk_pla_blue">>, "Silk PLA Blue", "corrupt", "", FALSE),
      \* 3: common prefixes (category 8)
      Seed(3, <<"acme", "TPU", "tpu", "a95_black">>, "A95 Black", "ok", "#000000", TRUE),
      Seed(3, <<"acme", "TPU", "tpu", "a95_white">>, "A95 - White", "ok", "", FALSE),
      Seed(3, <<"acme", "TPU", "tpu", "a95_red">>, "A95 Red", "ok", "", FALSE),
      Seed(3, <<"acme", "TPU", "a95_tpu", "black">>, "Black", "ok", "", FALSE),
      Seed(3, <<"acme", "PLA", "metallic_pla", "metallic_red">>, "Metallic Red", "ok", "", FALSE),
      Seed(3, <<"acme", "PLA", "metallic_pla", "metallic_blue">>, "Metallic Blue ()", "ok", "", FALSE),
      Seed(3, <<"acme", "PLA", "metallic_pla", "metallic_metallic_red">>, "Metallic Metallic Red", "ok", "", FALSE),
      \* 4: display names, technical codes, long names (categories 9, 4, 6)
      Seed(4, <<"acme", "PLA", "pla", "red">>, "Red ()", "ok", "", FALSE),
      Seed(4, <<"acme", "PLA", "pla", "blue">>, "Sky  Blue", "ok", "", FALSE),
      Seed(4, <<"acme", "PLA", "pla", "7016">>, "7016", "ok", "", FALSE),
      Seed(4, <<"acme", "PLA", "pla", "signature_series_extra_tough_midnight_blue">>,
           "Midnight Blue", "ok", "", FALSE),
      Seed(4, <<"acme", "PLA", "pla", "green">>, "Premium Green", "ok", "", FALSE),
      Seed(4, <<"acme", "PLA", "pla", "white">>, "(( ))", "ok", "", FALSE),
      Seed(4, <<"acme", "PLA", "silk_pla_red">>, "Silk PLA Red", "ok", "#ff0000", FALSE),
      Seed(4, <<"acme", "PLA", "pla", "flexible_95a_signature_series_extra_tough_blue">>,
           "Flexible 95A Blue", "ok", "", FALSE),
      \* 5: brand prefix rules and product lines (categories 2 and 7)
      Seed(5, <<"matter3d_inc", "PLA", "pla", "hf_red">>, "HF Red", "ok", "", FALSE),
      Seed(5, <<"matter3d_inc", "PLA", "pla", "red">>, "Red", "ok", "", FALSE),
      Seed(5, <<"matter3d_inc", "PLA", "pla", "performance_blue">>, "Performance Blue", "ok", "#0000ff", TRUE),
      Seed(5, <<"matter3d_inc", "PLA", "performance_pla", "blue">>, "Blue", "ok", "", FALSE),
      Seed(5, <<"matter3d_inc", "PLA", "pla", "performance_hf_green">>, "Performance HF Green", "ok", "", FALSE),
      Seed(5, <<"matter3d_inc", "PLA", "pla", "performance_red">>, "Performance Red", "ok", "", FALSE),
      Seed(5, <<"matter3d_inc", "PLA", "pla", "basics_series_black">>, "Basics Series - Black", "ok", "", FALSE),
      \* 6: product-line suffixes and suffix rules, two brands
      Seed(6, <<"zyltech", "PLA", "pla", "red_texas_twister_series_multi_color">>,
           "Red Texas Twister Series Multi Color", "ok", "", FALSE),
      Seed(6, <<"zyltech", "PLA", "pla", "blue_new_made_in_usa_premium_composite">>,
           "Blue New Made In Usa Premium Composite", "ok", "", FALSE),
      Seed(6, <<"zyltech", "PLA", "pla", "blue">>, "Blue", "ok", "", FALSE),
      Seed(6, <<"zyltech", "PLA", "texas_twister_series_multi_color_pla", "red">>, "Red", "ok", "", FALSE),
      Seed(6, <<"acme", "PLA", "pla", "7016">>, "7016", "ok", "", FALSE),
      \* 7: import prefix (category 3), SKU codes, technical codes, three brands
      Seed(7, <<"printedsolid", "PLA", "pla", "ps_imports_red">>, "PS Imports Red", "ok", "", FALSE),
      Seed(7, <<"printedsolid", "PLA", "pla", "jessie_premium_blue">>, "", "corrupt", "", TRUE),
      Seed(7, <<"dremel", "PLA", "pla", "digilab_bla_01_black">>, "Digilab BLA 01 Black", "ok", "", FALSE),
      Seed(7, <<"dremel", "PLA", "pla", "digilab_eco_">>, "Digilab Eco", "ok", "", FALSE),
      Seed(7, <<"sainsmart", "TPU", "tpu", "black_92a_flexible">>, "Black 92A Flexible", "ok", "", FALSE),
      Seed(7, <<"sainsmart", "TPU", "tpu", "flexible_95a_red">>, "Flexible 95A Red", "ok", "", FALSE),
      \* 8: a prefix rule, a product line and a common prefix in one filament
      Seed(8, <<"matter3d_inc", "PLA", "pro_pla", "hf_performance_red">>, "HF Performance Red", "ok", "", FALSE),
      Seed(8, <<"matter3d_inc", "PLA", "pro_pla", "pro_performance_red">>, "Pro Performance Red", "ok", "", FALSE),
      Seed(8, <<"matter3d_inc", "PLA", "pro_pla", "pro_blue">>, "Pro Blue", "ok", "", FALSE),
      \* 9: a brand without rules whose variants carry a product line
      Seed(9, <<"sakata_3d", "PLA", "pla", "850_black">>, "850 Black", "ok", "#000000", TRUE),
      Seed(9, <<"sakata_3d", "PLA", "pla", "850_blue">>, "850 Blue", "ok", "", FALSE),
      Seed(9, <<"sakata_3d", "PLA", "850", "black">>, "Black", "ok", "", FALSE) }

Groups == {sd.grp : sd \in SeedPool}

GroupSeeds(g) == {sd \in SeedPool : sd.grp = g}

\* The subsets of P of at most n elements.
RECURSIVE UpTo(_, _)
UpTo(P, n) ==
    IF n = 0 THEN {{}}
    ELSE LET prev == UpTo(P, n - 1)
         IN  prev \cup {S \cup {x} : S \in prev, x \in P}

\* The seed sets a tree is built from: seeds of one group, pairwise distinct
\* paths, at most MaxSeeds of them.
SeedSets ==
    UNION {{S \in UpTo(GroupSeeds(g), MaxSeeds) :
               \A a, b \in S : a.path = b.path => a = b} : g \in Groups}

\* The document of a seed.
SeedDoc(sd) ==
    IF sd.doc = "corrupt" THEN CorruptDoc
    ELSE LET base == [id |-> Last(sd.path), name |-> sd.name]
         IN  Doc(IF sd.hex # "" THEN Put(base, "color_hex", sd.hex) ELSE base)

\* The filament.json of a FilamentType directory that is not a seed itself.
DefaultFilamentDoc(f) ==
    LET base == [id |-> f, name |-> id_to_display_name(f)]
    IN  Doc(IF is_color_like(f) THEN Put(base, "color_hex", "#c0ffee") ELSE base)

SizesDoc == Doc([diameter |-> "1.75"])

BuildTree(S) ==
    LET ds == {<< >>} \cup UNION {Prefixes(sd.path) : sd \in S}
        fdirs == {d \in ds : Len(d) = 3}
        seedOf(p) == CHOOSE sd \in S : sd.path = p
        isSeed(p) == \E sd \in S : sd.path = p
        docName(p) == IF Len(p) = 3 THEN "filament.json" ELSE "variant.json"
        docFiles == {d \o <<docName(d)>> : d \in {d \in ds : Len(d) >= 3}}
        sizeFiles == {sd.path \o <<"sizes.json">> : sd \in {sd \in S : sd.sizes}}
    IN  [dirs |-> ds,
         files |-> [q \in docFiles \cup sizeFiles |->
                      IF Last(q) = "sizes.json" THEN SizesDoc
                      ELSE IF isSeed(Parent(q)) THEN SeedDoc(seedOf(Parent(q)))
                      ELSE DefaultFilamentDoc(Last(Parent(q)))]]

InputTrees == {BuildTree(S) : S \in SeedSets}

(***************************************************************************)
(* The state of a session: the store, the report of the current run, the   *)
(* position of CleanupOptNamingScript.run and its arguments.               *)
(***************************************************************************)
VARIABLES
    dirs,               \* data_dir (the empty path) and the directories below it
    files,              \* file path -> document
    actions,            \* report.actions
    skipped,            \* report.skipped
    errors,             \* report.errors
    pc,                 \* position in run()
    brands,             \* the brands to process
    i,                  \* index of the brand being scanned
    already_reported,   \* paths collected for the dedup of categories 4 and 6
    report_file,        \* what has been written to report_path
    dry_run,            \* not args.apply
    brand_arg,          \* args.brand ("" when absent)
    category_filter,    \* args.category (0 when absent)
    fuel,               \* filesystem operations before the process is killed
    runNo,              \* number of the current invocation
    maxRuns,            \* invocations of the session
    modes,              \* the modes (dry_run values) of the later invocations
    applied,            \* history: transforms carried out by the current run
    startTree,          \* history: the store when the current run started
    hist,               \* history: the earlier runs of the session
    probe               \* a function called on its own: its arguments and result

vars == <<dirs, files, actions, skipped, errors, pc, brands, i, already_reported,
          report_file, dry_run, brand_arg, category_filter, fuel, runNo, maxRuns,
          modes, applied, startTree, hist, probe>>

World ==
    [dirs |-> dirs, files |-> files, actions |-> actions, skipped |-> skipped,
     applied |-> applied, fuel |-> fuel, dead |-> FALSE,
     moves |-> << >>, processed |-> << >>, proposed |-> {}, existing |-> {},
     brk |-> FALSE]

\* The effect of a step of run(): the store and the report it leaves, and
\* the next position unless the process was killed.
Commit(w, next) ==
    /\ dirs' = w.dirs
    /\ files' = w.files
    /\ actions' = w.actions
    /\ skipped' = w.skipped
    /\ applied' = w.applied
    /\ fuel' = w.fuel
    /\ pc' = IF w.dead THEN "crashed" ELSE next

Selected(cats) == category_filter = 0 \/ category_filter \in cats

Args == <<dry_run, brand_arg, category_filter, maxRuns>>

InitWith(t, dry, brand, cat, fl, runs, later) ==
    /\ dirs = t.dirs
    /\ files = t.files
    /\ actions = << >>
    /\ skipped = << >>
    /\ errors = << >>
    /\ pc = "start"
    /\ brands = << >>
    /\ i = 1
    /\ already_reported = {}
    /\ report_file = << >>
    /\ dry_run = dry
    /\ brand_arg = brand
    /\ category_filter = cat
    /\ fuel = fl
    /\ runNo = 1
    /\ maxRuns = runs
    /\ modes = later
    /\ applied = << >>
    /\ startTree = t
    /\ hist = << >>
    /\ probe = << >>

\* Unscoped runs that are not interrupted.
Init == \E t \in InputTrees, dry \in BOOLEAN : InitWith(t, dry, "", 0, -1, MaxRuns, BOOLEAN)

\* Start without the --brand scope: every brand directory is scanned.
Start_AllBrands ==
    /\ pc = "start"
    /\ brands' = IF is_dir(World, << >>) THEN SortedSeq(SubDirs(World, << >>)) ELSE << >>
    /\ i' = 1
    /\ pc' = IF brand_arg = "" /\ ~is_dir(World, << >>) THEN "failed"
             ELSE IF Len(brands') = 0 THEN "reduce" ELSE "cat1"
    /\ UNCHANGED <<dirs, files, actions, skipped, errors, already_reported, report_file,
                   dry_run, brand_arg, category_filter, fuel, runNo, maxRuns, modes,
                   applied, startTree, hist, probe>>

\* Start without sorted(): the brand directories in the reverse order.
Start_Unsorted ==
    /\ pc = "start"
    /\ brands' = IF brand_arg # "" THEN <<brand_arg>>
                 ELSE ReverseSeq(SortedSeq(SubDirs(World, << >>)))
    /\ i' = 1
    /\ pc' = IF brand_arg = "" /\ ~is_dir(World, << >>) THEN "failed"
             ELSE IF Len(brands') = 0 THEN "reduce" ELSE "cat1"
    /\ UNCHANGED <<dirs, files, actions, skipped, errors, already_reported, report_file,
                   dry_run, brand_arg, category_filter, fuel, runNo, maxRuns, modes,
                   applied, startTree, hist, probe>>

\* brands = [args.brand] or the sorted brand directories; data_dir.iterdir()
\* raises FileNotFoundError when data_dir does not exist, and run() does not
\* return.
Start ==
    /\ pc = "start"
    /\ brands' = IF brand_arg # "" THEN <<brand_arg>> ELSE SortedSeq(SubDirs(World, << >>))
    /\ i' = 1
    /\ pc' = IF brand_arg = "" /\ ~is_dir(World, << >>) THEN "failed"
             ELSE IF Len(brands') = 0 THEN "reduce" ELSE "cat1"
    /\ UNCHANGED <<dirs, files, actions, skipped, errors, already_reported, report_file,
                   dry_run, brand_arg, category_filter, fuel, runNo, maxRuns, modes,
                   applied, startTree, hist, probe>>

Frame == UNCHANGED <<errors, brands, already_reported, report_file, dry_run, brand_arg,
                     category_filter, runNo, maxRuns, modes, startTree, hist, probe>>

Category1 ==
    /\ pc = "cat1"
    /\ \E order \in ListingOrders :
          Commit(IF Selected({1})
                 THEN DetectAndApply1(detect_category_1(World, brands[i], order), dry_run)
                 ELSE World, "prefixes")
    /\ UNCHANGED i
    /\ Frame

Prefixes23 ==
    /\ pc = "prefixes"
    /\ Commit(IF Selected({2, 3})
              THEN detect_and_apply_prefixes(World, brands[i], dry_run, category_filter)
              ELSE World, "product_lines")
    /\ UNCHANGED i
    /\ Frame

ProductLines ==
    /\ pc = "product_lines"
    /\ Commit(IF Selected({7})
              THEN detect_and_apply_product_lines(World, brands[i], dry_run)
              ELSE World, "product_line_suffixes")
    /\ UNCHANGED i
    /\ Frame

ProductLineSuffixes ==
    /\ pc = "product_line_suffixes"
    /\ Commit(IF Selected({7})
              THEN detect_and_apply_product_line_suffixes(World, brands[i], dry_run)
              ELSE World, "suffix_strips")
    /\ UNCHANGED i
    /\ Frame

SuffixStrips ==
    /\ pc = "suffix_strips"
    /\ Commit(IF Selected({2})
              THEN detect_and_apply_suffix_strips(World, brands[i], dry_run)
              ELSE World, "color_split")
    /\ UNCHANGED i
    /\ Frame

ColorSplit ==
    /\ pc = "color_split"
    /\ Commit(IF Selected({5})
              THEN detect_and_apply_color_split(World, brands[i], dry_run)
              ELSE World, "common_prefix")
    /\ UNCHANGED i
    /\ Frame

CommonPrefix ==
    /\ pc = "common_prefix"
    /\ Commit(IF Selected({8})
              THEN detect_and_apply_common_prefix(World, brands[i], dry_run)
              ELSE World, "name_fixes")
    /\ UNCHANGED i
    /\ Frame

\* The last detector of the brand loop; the loop then moves to the next brand.
NameFixes ==
    /\ pc = "name_fixes"
    /\ Commit(IF Selected({9})
              THEN detect_and_apply_name_fixes(World, brands[i], dry_run)
              ELSE World,
              IF i < Len(brands) THEN "cat1" ELSE "reduce")
    /\ i' = IF pc' = "cat1" THEN i + 1 ELSE i
    /\ Frame

\* already_reported = old and new paths of the actions recorded so far
Reduce ==
    /\ pc = "reduce"
    /\ already_reported' =
           {actions[k].old_path : k \in 1..Len(actions)}
           \cup {actions[k].new_path : k \in {j \in 1..Len(actions) : actions[j].new_path # ""}}
    /\ pc' = "cat4"
    /\ UNCHANGED <<dirs, files, actions, skipped, errors, brands, i, report_file, dry_run,
                   brand_arg, category_filter, fuel, runNo, maxRuns, modes, applied,
                   startTree, hist, probe>>

Audit4 ==
    /\ pc = "cat4"
    /\ Commit(IF Selected({4})
              THEN FoldSeq(LAMBDA w, b : detect_category_4(w, b, already_reported),
                           World, brands)
              ELSE World, "cat6")
    /\ UNCHANGED i
    /\ Frame

Audit6 ==
    /\ pc = "cat6"
    /\ Commit(IF Selected({6})
              THEN FoldSeq(LAMBDA w, b : detect_category_6(w, b, already_reported),
                           World, brands)
              ELSE World, "report")
    /\ UNCHANGED i
    /\ Frame

AutoActions(as) == SelectSeq(as, LAMBDA a : a.confidence = "auto")

ManualActions(as) == SelectSeq(as, LAMBDA a : a.confidence = "manual_review")

\* "=" * 60 and "-" * 60
Rule60 == "============================================================"

Dash60 == "------------------------------------------------------------"

\* cat_labels.get(cat, f"Category {cat}") of the auto section.
AutoLabel(cat) ==
    CASE cat = 1 -> "Swapped filament/variant layers"
      [] cat = 2 -> "Prefix/suffix stripped"
      [] cat = 3 -> "Import prefix stripped"
      [] cat = 5 -> "Color split from filament name"
      [] cat = 7 -> "Product line moved to filament dir"
      [] cat = 8 -> "Common prefix stripped/moved"
      [] cat = 9 -> "Display name fixed"
      [] OTHER -> "Category " \o ToString(cat)

\* cat_labels.get(cat, f"Category {cat}") of the manual-review section.
ManualLabel(cat) ==
    CASE cat = 2 -> "Series prefix (potential product line)"
      [] cat = 3 -> "Import prefix (potential product line)"
      [] cat = 4 -> "Technical specs in variant names"
      [] cat = 5 -> "Colors merged into filament names"
      [] cat = 6 -> "Overly long variant names"
      [] cat = 7 -> "Product line prefix at variant level"
      [] OTHER -> "Category " \o ToString(cat)

\* SortedCategories without sorted(): the categories in descending order.
SortedCategories_Descending(as) ==
    SelectSeq(<<9, 8, 7, 6, 5, 4, 3, 2, 1>>,
              LAMBDA cat : \E k \in 1..Len(as) : as[k].category = cat)

\* sorted({a.category for a in as}); the categories are 1..9.
SortedCategories(as) ==
    SelectSeq(<<1, 2, 3, 4, 5, 6, 7, 8, 9>>,
              LAMBDA cat : \E k \in 1..Len(as) : as[k].category = cat)

\* The lines of one Action of the auto section.
AutoLines(a) ==
    IF a.new_path # "" THEN <<"    " \o a.old_path, "      -> " \o a.new_path>>
    ELSE <<"    " \o a.old_path>>

\* The lines of one Action of the manual-review section.
ManualLines(a) == <<"    " \o a.old_path, "      Reason: " \o a.description>>

\* The lines of one category of a section: the header f"\n  Category ..."
\* (an empty line and the header) and the lines of its Actions, in list order.
CategoryLines(as, cat, Label(_), Lines(_)) ==
    LET cat_actions == SelectSeq(as, LAMBDA a : a.category = cat)
    IN  <<"", "  Category " \o ToString(cat) \o " - " \o Label(cat)
                \o " (" \o ToString(Len(cat_actions)) \o "):">>
        \o FoldSeq(LAMBDA acc, a : acc \o Lines(a), << >>, cat_actions)

\* A section of Actions: nothing when the list is empty.
ActionSection(as, title, Label(_), Lines(_)) ==
    IF Len(as) = 0 THEN << >>
    ELSE <<Dash60, title \o " (" \o ToString(Len(as)) \o "):", Dash60>>
         \o FoldSeq(LAMBDA acc, cat : acc \o CategoryLines(as, cat, Label, Lines),
                    << >>, SortedCategories(as))
         \o <<"">>

\* A section of messages: nothing when the list is empty.
MessageSection(msgs, title) ==
    IF Len(msgs) = 0 THEN << >>
    ELSE <<Dash60, title \o " (" \o ToString(Len(msgs)) \o "):", Dash60>>
         \o [k \in 1..Len(msgs) |-> "    " \o msgs[k]]
         \o <<"">>

\* The lines of the report text ("\n".join(lines), split at the newlines).
format_report(as, skips, errs, is_applied) ==
    <<Rule60, "OPT NAMING CLEANUP REPORT", Rule60, "",
      "Mode: " \o (IF is_applied THEN "APPLIED" ELSE "DRY RUN (use --apply to execute)"),
      "">>
    \o ActionSection(AutoActions(as), "AUTO-FIXABLE", AutoLabel, AutoLines)
    \o ActionSection(ManualActions(as), "MANUAL REVIEW NEEDED", ManualLabel, ManualLines)
    \o MessageSection(skips, "SKIPPED DUE TO COLLISIONS")
    \o MessageSection(errs, "ERRORS")
    \o <<Dash60, "SUMMARY:",
         "  Auto-fixable:   " \o ToString(Len(AutoActions(as))),
         "  Manual review:  " \o ToString(Len(ManualActions(as))),
         "  Skipped:        " \o ToString(Len(skips)),
         "  Errors:         " \o ToString(Len(errs)),
         "  Total issues:   " \o ToString(Len(as)),
         Rule60>>

\* The report is formatted and written; run() returns success.
Report ==
    /\ pc = "report"
    /\ report_file' = [applied |-> ~dry_run,
                       auto |-> Len(AutoActions(actions)),
                       manual |-> Len(ManualActions(actions)),
                       skipped |-> Len(skipped),
                       errors |-> Len(errors),
                       total |-> Len(actions),
                       text |-> format_report(actions, skipped, errors, ~dry_run)]
    /\ pc' = "done"
    /\ UNCHANGED <<dirs, files, actions, skipped, errors, brands, i, already_reported,
                   dry_run, brand_arg, category_filter, fuel, runNo, maxRuns, modes,
                   applied, startTree, hist, probe>>

\* The script is invoked again on the store the previous invocation left,
\* with the same scope, in either mode, and is not interrupted.
NextRun ==
    /\ pc \in {"done", "crashed"}
    /\ runNo < maxRuns
    /\ hist' = Append(hist, [dry_run |-> dry_run, crashed |-> pc = "crashed",
                             actions |-> actions, skipped |-> skipped,
                             startTree |-> startTree])
    /\ \E dry \in modes : dry_run' = dry
    /\ runNo' = runNo + 1
    /\ fuel' = -1
    /\ actions' = << >>
    /\ skipped' = << >>
    /\ errors' = << >>
    /\ applied' = << >>
    /\ report_file' = << >>
    /\ already_reported' = {}
    /\ brands' = << >>
    /\ i' = 1
    /\ startTree' = [dirs |-> dirs, files |-> files]
    /\ pc' = "start"
    /\ UNCHANGED <<dirs, files, brand_arg, category_filter, maxRuns, modes, probe>>

Next ==
    \/ Start
    \/ Category1
    \/ Prefixes23
    \/ ProductLines
    \/ ProductLineSuffixes
    \/ SuffixStrips
    \/ ColorSplit
    \/ CommonPrefix
    \/ NameFixes
    \/ Reduce
    \/ Audit4
    \/ Audit6
    \/ Report
    \/ NextRun

Spec == Init /\ [][Next]_vars

\* An apply-mode invocation that is killed after at most MaxCrashOps filesystem
\* operations (or runs to completion), followed by apply-mode invocations
\* that are not interrupted.
InitCrash ==
    \E t \in InputTrees, fl \in 0..MaxCrashOps :
        InitWith(t, FALSE, "", 0, fl, MaxRuns + 1, {FALSE})

SpecCrash == InitCrash /\ [][Next]_vars

\* A data_dir that does not exist.
NoStore == [dirs |-> {}, files |-> << >>]

\* The values of --brand: absent, a brand directory of the tree, or a name
\* that is no directory of it.
BrandArgs(t) == {""} \cup {d[1] : d \in {e \in t.dirs : Len(e) = 1}} \cup {"nobrand"}

\* One invocation with any scope (--brand, --category), over a tree or over
\* a data_dir that does not exist.
ScopedTrees == {BuildTree(S) : S \in {T \in SeedSets : Cardinality(T) <= MaxScopedSeeds}}

InitScoped ==
    \E t \in ScopedTrees \cup {NoStore}, dry \in BOOLEAN :
        \E brand \in BrandArgs(t), cat \in 0..9 :
            InitWith(t, dry, brand, cat, -1, 1, {})

NextScoped ==
    \/ Start
    \/ Category1
    \/ Prefixes23
    \/ ProductLines
    \/ ProductLineSuffixes
    \/ SuffixStrips
    \/ ColorSplit
    \/ CommonPrefix
    \/ NameFixes
    \/ Reduce
    \/ Audit4
    \/ Audit6
    \/ Report

SpecScoped == InitScoped /\ [][NextScoped]_vars

(***************************************************************************)
(* Properties.                                                             *)
(***************************************************************************)
\* The path a report string names.
PathOf(rel) == Split(rel, "/")

Tree == [dirs |-> dirs, files |-> files]

\* The invocation before the current one.
Previous == hist[Len(hist)]

\* (category, brand, old_path, new_path, confidence) of an Action.
Core(a) == <<a.category, a.brand, a.old_path, a.new_path, a.confidence>>

Cores(as) == {Core(as[k]) : k \in 1..Len(as)}

\* The current invocation has returned and directly follows a complete
\* apply-mode invocation.
AfterCompleteApply ==
    /\ pc = "done"
    /\ Len(hist) > 0
    /\ ~Previous.dry_run
    /\ ~Previous.crashed

\* C1 - idempotence: an invocation that directly follows a complete apply-mode
\* invocation records no new Action: none that is auto, and none that the
\* previous invocation had not already reported.
C1_Idempotence ==
    AfterCompleteApply =>
        \A k \in 1..Len(actions) :
            /\ actions[k].confidence # "auto"
            /\ Core(actions[k]) \in Cores(Previous.actions)

\* C2 - dry-run equivalence: an apply-mode invocation records the same Actions
\* (category, brand, old_path, new_path, confidence) as the dry-run
\* invocation that preceded it over the same tree; the two lists are compared
\* as sets, so that the order in which a directory is listed plays no part.
C2_DryRunEquivalence ==
    (/\ pc = "done"
     /\ Len(hist) > 0
     /\ Previous.dry_run
     /\ ~dry_run
     /\ Previous.startTree = startTree)
        => Cores(actions) = Cores(Previous.actions)

\* C3 - a dry-run invocation leaves the tree unchanged: at every point of a
\* dry run, the directories and documents are those the run started from.
C3_DryRunLeavesTree ==
    dry_run => Tree = startTree

\* A dry run has returned with auto Actions of a structural category in its
\* report.
C3_Witness ==
    /\ dry_run
    /\ pc = "done"
    /\ \E k \in 1..Len(actions) :
          actions[k].confidence = "auto" /\ actions[k].new_path # ""
    /\ \E k \in 1..Len(actions) : actions[k].category = 9

\* The transforms the run has applied so far.
Applied == {applied[k] : k \in 1..Len(applied)}

Relocations == {rec \in Applied : rec.kind \in {"swap", "move", "split"}}

\* The Variant-level documents below the source of a relocation, by relative
\* path: the documents of the moved variant or, for a split, the documents of
\* the variants of the old FilamentType and its sizes document.
VariantDocs(rec) ==
    IF rec.kind = "split"
    THEN {r \in DOMAIN rec.before : Len(r) = 2 \/ r = <<"sizes.json">>}
    ELSE DOMAIN rec.before

\* Where such a document lies below rec.after once the transform is done.
DestOf(rec, r) ==
    IF rec.kind = "split" /\ Len(r) = 1 THEN <<Last(rec.dst)>> \o r ELSE r

Updated == {"id", "name"}

\* Identical content except the id and name fields.
SameExceptIdName(a, b) ==
    /\ a.ok = b.ok
    /\ DOMAIN a.map \ Updated = DOMAIN b.map \ Updated
    /\ \A key \in DOMAIN a.map \ Updated : a.map[key] = b.map[key]

\* Every attribute of a except id and name is an attribute of b, unchanged.
KeepsAttributes(a, b) ==
    /\ b.ok
    /\ \A key \in DOMAIN a.map \ Updated : key \in DOMAIN b.map /\ a.map[key] = b.map[key]

C5_NoCollisions ==
    \A j, k \in 1..Len(applied) :
        /\ j < k => applied[j].dst # applied[k].dst
        /\ applied[k].dstExisted => applied[k].dst = applied[k].src

\* C6 - collision handling: a proposal whose destination exists on disk is
\* entered in the skipped list instead of becoming an Action.  Stated for the
\* dry run, where the tree the proposals were made against is the tree at the
\* end: no auto Action of the report names a destination that exists.
C6_CollisionHandling ==
    (dry_run /\ pc = "done") =>
        \A k \in 1..Len(actions) :
            (actions[k].confidence = "auto" /\ actions[k].new_path # "")
                => PathOf(actions[k].new_path) \notin dirs

\* The variant document a transform wrote or moved, when it can be loaded.
VariantDocAfter(rec) ==
    LET r == IF rec.kind = "split" THEN <<Last(rec.dst), "variant.json">>
             ELSE <<"variant.json">>
    IN  IF r \in DOMAIN rec.after /\ rec.after[r].ok THEN rec.after[r].map ELSE EmptyMap

\* C7 - id invariant: after an applied strip, move, split or swap, the id of
\* the variant document at the destination is the destination's directory
\* name, and so is the id of a FilamentType document the transform derived.
C7_IdInvariant ==
    \A rec \in Applied :
        /\ Truthy(VariantDocAfter(rec)) => Get(VariantDocAfter(rec), "id", "") = Last(rec.dst)
        /\ rec.typeDerived =>
              /\ Truthy(rec.typeDoc)
              /\ Get(rec.typeDoc, "id", "") = Last(Parent(rec.dst))

\* A run has applied a strip and a move that derived a new FilamentType, both
\* with a variant document at the destination.
C7_Witness ==
    /\ \E rec \in Applied : rec.kind = "strip" /\ Truthy(VariantDocAfter(rec))
    /\ \E rec \in Applied :
          rec.kind = "move" /\ rec.typeDerived /\ Truthy(VariantDocAfter(rec))

Structural == {1, 2, 3, 5, 7, 8}

\* C9 - Action invariant: confidence is auto or manual_review; an auto Action
\* of a structural category has a new_path; a category-9 Action is auto and
\* has none; a manual_review Action has none.
C9_ActionInvariant ==
    \A k \in 1..Len(actions) :
        LET a == actions[k]
        IN  /\ a.confidence \in {"auto", "manual_review"}
            /\ (a.confidence = "auto" /\ a.category \in Structural) => a.new_path # ""
            /\ a.category = 9 => (a.confidence = "auto" /\ a.new_path = "")
            /\ a.confidence = "manual_review" => a.new_path = ""

\* A report holds a structural auto Action, a category-9 Action and a
\* manual_review Action.
C9_Witness ==
    /\ \E k \in 1..Len(actions) :
          actions[k].confidence = "auto" /\ actions[k].category \in Structural
    /\ \E k \in 1..Len(actions) : actions[k].category = 9
    /\ \E k \in 1..Len(actions) : actions[k].confidence = "manual_review"

\* The Actions a step appends to the report.
Appended == {actions'[k] : k \in (Len(actions) + 1)..Len(actions')}

\* C10 - manual-review items are never applied: the audits of categories 4
\* and 6 record only manual_review Actions, and a step that records a
\* manual_review Action leaves every directory and document as it was.
C10_ManualReviewNeverApplied ==
    [][/\ pc \in {"cat4", "cat6"} =>
            /\ dirs' = dirs /\ files' = files
            /\ \A a \in Appended : a.confidence = "manual_review" /\ a.new_path = ""
       /\ (\E a \in Appended : a.confidence = "manual_review") =>
            dirs' = dirs /\ files' = files]_vars

\* An apply-mode run has recorded manual_review Actions of categories 4 and 6.
C10_Witness ==
    /\ ~dry_run
    /\ pc = "report"
    /\ \E k \in 1..Len(actions) :
          actions[k].category = 4 /\ actions[k].confidence = "manual_review"
    /\ \E k \in 1..Len(actions) :
          actions[k].category = 6 /\ actions[k].confidence = "manual_review"

\* C8 - crash convergence: when an apply-mode invocation has been killed
\* between two filesystem operations and the next apply-mode invocation has
\* run to completion, a further invocation records no new Action: none that
\* is auto, and none that the completed invocation had not already reported.
C8_CrashConvergence ==
    (/\ AfterCompleteApply
     /\ Len(hist) > 1
     /\ hist[Len(hist) - 1].crashed)
        => \A k \in 1..Len(actions) :
               /\ actions[k].confidence # "auto"
               /\ Core(actions[k]) \in Cores(Previous.actions)

\* The detector calls of the brand loop, in the order of the spec's sequence
\* 1, 2/3, 7-prefix, 7-suffix, suffix-strip, 5, 8, 9.
BrandSteps ==
    <<"cat1", "prefixes", "product_lines", "product_line_suffixes",
      "suffix_strips", "color_split", "common_prefix", "name_fixes">>

\* The categories a step of the sequence may report.
CatsAt(p) ==
    CASE p = "cat1" -> {1}
      [] p = "prefixes" -> {2, 3}
      [] p = "product_lines" -> {7}
      [] p = "product_line_suffixes" -> {7}
      [] p = "suffix_strips" -> {2}
      [] p = "color_split" -> {5}
      [] p = "common_prefix" -> {8}
      [] p = "name_fixes" -> {9}
      [] p = "cat4" -> {4}
      [] p = "cat6" -> {6}
      [] OTHER -> {}

\* The position that follows p in the sequence, for the brand loop's last
\* step: the first step of the next brand, or the audits after the last brand.
FollowerOf(p) ==
    CASE p = "name_fixes" -> IF i < Len(brands) THEN "cat1" ELSE "reduce"
      [] p = "reduce" -> "cat4"
      [] p = "cat4" -> "cat6"
      [] p = "cat6" -> "report"
      [] p = "report" -> "done"
      [] OTHER -> BrandSteps[(CHOOSE k \in 1..7 : BrandSteps[k] = p) + 1]

\* C11 - orchestrator order: the brands are scanned one at a time in sorted
\* order; for each brand the steps run in the sequence 1, 2/3, 7-prefix,
\* 7-suffix, suffix-strip, 5, 8, 9, each recording Actions of its own
\* category and brand only, for nodes of the tree the previous step left;
\* after the last brand, categories 4 and then 6 run once over the final tree,
\* which they leave unchanged; then the report is written, exactly once.
C11_OrchestratorOrder ==
    [][/\ \A k \in 1..(Len(brands) - 1) : StrLess(brands[k], brands[k + 1])
       /\ pc = "start" => pc' \in {"cat1", "reduce", "failed"} /\ i' = 1
       /\ pc \in Range(BrandSteps) \cup {"reduce", "cat4", "cat6", "report"} =>
             /\ pc' = FollowerOf(pc)
             /\ i' = IF pc = "name_fixes" /\ i < Len(brands) THEN i + 1 ELSE i
       /\ \A a \in Appended :
             /\ a.category \in CatsAt(pc)
             /\ pc \in Range(BrandSteps) => a.brand = brands[i]
             /\ PathOf(a.old_path) \in dirs
       /\ pc \in {"reduce", "cat4", "cat6", "report"} => dirs' = dirs /\ files' = files
       /\ report_file' # report_file =>
             \/ pc = "report" /\ report_file = << >> /\ pc' = "done"
             \/ pc' = "start"
       /\ pc' = "done" => report_file' # << >>]_vars

\* An apply-mode run over two brands has returned: it recorded auto Actions,
\* Actions of two brands and an Action of an audit, and applied a transform.
C11_Witness ==
    /\ pc = "done"
    /\ ~dry_run
    /\ Len(brands) >= 2
    /\ Len(applied) > 0
    /\ report_file # << >>
    /\ \E j, k \in 1..Len(actions) : actions[j].brand # actions[k].brand
    /\ \E k \in 1..Len(actions) : actions[k].category \in {4, 6}

\* C12 - audit deduplication: an Action of category 4 or 6 is never recorded
\* for a path that an earlier Action of the same run carries as its old_path
\* or new_path, the category-4 Action for the same path included; so no path
\* appears in two Actions of the manual-review audit.
C12_AuditDeduplication ==
    \A k \in 1..Len(actions) :
        actions[k].category \in {4, 6} =>
            \A j \in 1..(k - 1) :
                /\ actions[j].old_path # actions[k].old_path
                /\ actions[j].new_path # actions[k].old_path

\* C13 - document failures go to the report: when a run has scanned a Variant
\* whose variant.json cannot be parsed (category 9 loads the document of every
\* Variant of every brand), the failure is recorded in the report's errors.
C13_DocumentFailuresReported ==
    (/\ pc = "done"
     /\ brand_arg = ""
     /\ Selected({9})
     /\ \E p \in DOMAIN files : Len(p) = 5 /\ p[5] = "variant.json" /\ ~files[p].ok)
        => Len(errors) > 0

\* C14 - exit status: a run aborts with failure only when the top-level
\* storage root does not exist, and it does abort then, for every scope, a
\* run scoped with --brand included: such a run scans nothing and does not
\* return success.
C14_ExitStatus ==
    /\ pc = "failed" => << >> \notin startTree.dirs
    /\ << >> \notin startTree.dirs => pc \in {"start", "failed"}

\* The part of a tree outside brand b's subtree.
Outside(t, b) ==
    [dirs |-> {d \in t.dirs : ~IsPrefix(<<b>>, d)},
     files |-> [p \in {q \in DOMAIN t.files : ~IsPrefix(<<b>>, q)} |-> t.files[p]]]

\* C15 - brand scoping: in a run invoked with --brand B, in both modes, every
\* Action has brand B and paths below B, every skip names a path below B, and
\* the directories and documents outside B's subtree are those the run
\* started with.
C15_BrandScoping ==
    brand_arg # "" =>
        /\ \A k \in 1..Len(actions) :
              /\ actions[k].brand = brand_arg
              /\ IsPrefix(<<brand_arg>>, PathOf(actions[k].old_path))
              /\ actions[k].new_path # "" => IsPrefix(<<brand_arg>>, PathOf(actions[k].new_path))
        /\ \A k \in 1..Len(skipped) : Contains(brand_arg \o "/", skipped[k])
        /\ \A k \in 1..Len(applied) : IsPrefix(<<brand_arg>>, applied[k].src)
        /\ Outside(Tree, brand_arg) = Outside(startTree, brand_arg)

\* An apply run scoped to one of two brands has returned after applying a
\* transform; the other brand holds a Variant.
C15_Witness ==
    /\ pc = "done"
    /\ ~dry_run
    /\ brand_arg # ""
    /\ Len(applied) > 0
    /\ \E d \in dirs : Len(d) = 4 /\ d[1] # brand_arg

\* C16 - category scoping: in a run invoked with --category N every Action
\* has category N, every applied transform is the transform of category N
\* (for N = 3 the strip of the import prefix only, for N = 2 a prefix or
\* suffix strip, for N = 7 a product-line move), the tree changes only in a
\* step that runs category N, and with N = 4 or N = 6 it does not change.
C16_CategoryScoping ==
    [][category_filter # 0 =>
          /\ \A k \in 1..Len(actions') : actions'[k].category = category_filter
          /\ \A k \in 1..Len(applied') :
                /\ applied'[k].category = category_filter
                /\ category_filter \in {2, 3} => applied'[k].kind = "strip"
                /\ category_filter = 3 => StartsWith(Last(applied'[k].src), "ps_imports_")
                /\ category_filter = 2 => ~StartsWith(Last(applied'[k].src), "ps_imports_")
                /\ category_filter = 7 => applied'[k].kind = "move"
          /\ (dirs' # dirs \/ files' # files) => category_filter \in CatsAt(pc) /\ ~dry_run
          /\ category_filter \in {4, 6} => dirs' = startTree.dirs /\ files' = startTree.files]_vars

\* An apply run scoped to category 3 has returned after stripping the import
\* prefix, and a Variant that category 7 would move is still in place.
C16_Witness ==
    /\ pc = "done"
    /\ ~dry_run
    /\ category_filter = 3
    /\ Len(applied) > 0
    /\ <<"printedsolid", "PLA", "pla", "jessie_premium_blue">> \in dirs

\* The transforms the current step has carried out.
NewlyApplied == {applied'[k] : k \in (Len(applied) + 1)..Len(applied')}

\* The product line a configured prefix or suffix names.
LineOfPrefix(p) == IF RStripChars(p, "_") # "" THEN RStripChars(p, "_") ELSE p

LineOfSuffix(s) == IF LStripChars(s, "_") # "" THEN LStripChars(s, "_") ELSE s

FilamentTypesOf(brand) == {d \in dirs : Len(d) = 3 /\ d[1] = brand}

\* The FilamentType category 8 moves the children of T to, for the common
\* prefix cp.
SiblingOf(T, cp) == <<T[1], T[2], RStripChars(cp, "_") \o "_" \o T[3]>>

\* T is a case of the category-8 move: at least 2 Variant children, all with
\* the common whole-word prefix cp of at least 3 characters, which neither
\* T's name nor the brand's implies, and no FilamentType "P_T" yet.
MoveCase(T, cp) ==
    /\ Cardinality(SubDirs(World, T)) >= 2
    /\ Len(cp) >= 3
    /\ \A v \in SubDirs(World, T) : StartsWith(v, cp)
    /\ ~prefix_implied_by_filament(cp, T[3], T[1])
    /\ SiblingOf(T, cp) \notin dirs

\* C18 - category 8 move: when an apply run reaches category 8 for a brand,
\* every FilamentType T of the brand that is a case of the move, and that no
\* other FilamentType's move of the same step touches, has each child longer
\* than the prefix moved into the new sibling FilamentType "P_T" under its id
\* without the prefix, nothing of the child left in T; and the category-8
\* fixes of the children of one FilamentType are all strips or all moves.
C18_CommonPrefixMove ==
    [][(pc = "common_prefix" /\ ~dry_run /\ Selected({8})) =>
          /\ \A T \in FilamentTypesOf(brands[i]) :
                LET cp == compute_common_prefix(SortedSeq(SubDirs(World, T)))
                    PT == SiblingOf(T, cp)
                IN  (/\ MoveCase(T, cp)
                     /\ \A rec \in NewlyApplied :
                           Parent(rec.src) # T => Parent(rec.dst) \notin {T, PT})
                    => /\ PT \in dirs'
                       /\ \A v \in SubDirs(World, T) :
                             Len(v) > Len(cp) =>
                                 /\ PT \o <<DropFirst(v, Len(cp))>> \in dirs'
                                 /\ T \o <<v>> \notin dirs'
                                 /\ \E rec \in NewlyApplied :
                                       /\ rec.category = 8
                                       /\ rec.kind = "move"
                                       /\ rec.src = T \o <<v>>
                                       /\ rec.dst = PT \o <<DropFirst(v, Len(cp))>>
                                 /\ \E a \in Appended :
                                       /\ a.category = 8
                                       /\ a.old_path = RelPath(T \o <<v>>)
                                       /\ a.new_path = RelPath(PT \o <<DropFirst(v, Len(cp))>>)
          /\ \A r1, r2 \in NewlyApplied :
                (r1.category = 8 /\ r2.category = 8 /\ Parent(r1.src) = Parent(r2.src))
                    => r1.kind = r2.kind]_vars

\* Category 8 has just moved a95_black, a95_red and a95_white of acme/TPU/tpu
\* to the new FilamentType a95_tpu as black, red and white.
C18_Witness ==
    /\ pc = "name_fixes"
    /\ ~dry_run
    /\ \A c \in {"black", "red", "white"} :
          /\ <<"acme", "TPU", "a95_tpu", c>> \in dirs
          /\ <<"acme", "TPU", "tpu", "a95_" \o c>> \notin dirs
          /\ <<"acme", "TPU", "tpu", "a95_" \o c>> \in startTree.dirs
          /\ \E rec \in Applied :
                /\ rec.category = 8
                /\ rec.kind = "move"
                /\ rec.src = <<"acme", "TPU", "tpu", "a95_" \o c>>
                /\ rec.dst = <<"acme", "TPU", "a95_tpu", c>>
    /\ <<"acme", "TPU", "a95_tpu">> \notin startTree.dirs

\* The type-level document of the source of a split, as it was before.
OldTypeDoc(rec) ==
    IF <<"filament.json">> \in DOMAIN rec.before /\ rec.before[<<"filament.json">>].ok
    THEN rec.before[<<"filament.json">>].map ELSE EmptyMap

\* C19 - category 5 split: every applied split turns a FilamentType whose id
\* is head_tail, tail a known color and head holding a material keyword, into
\* FilamentType head with the new Variant tail, whose document has id tail
\* and the color's display name; a color_hex of the old type-level document
\* is on the new variant document, and the type-level document of head does
\* not have it: the document the split derives has no color_hex, and a
\* document that was already there is not written.
C19_ColorSplit ==
    [][\A rec \in NewlyApplied :
          rec.category = 5 =>
              LET head == rec.dst[3]
                  tail == rec.dst[4]
                  color_hex == Get(OldTypeDoc(rec), "color_hex", "")
                  type_json == <<rec.dst[1], rec.dst[2], head, "filament.json">>
              IN  /\ pc = "color_split"
                  /\ rec.kind = "split"
                  /\ Len(rec.src) = 3 /\ Len(rec.dst) = 4
                  /\ rec.src = <<rec.dst[1], rec.dst[2], head \o "_" \o tail>>
                  /\ tail \in KNOWN_COLORS
                  /\ has_material_keyword(head)
                  /\ rec.src \in dirs /\ ~rec.dstExisted
                  /\ Get(VariantDocAfter(rec), "id", "") = tail
                  /\ Get(VariantDocAfter(rec), "name", "") = clean_display_name(tail)
                  /\ color_hex # "" => Get(VariantDocAfter(rec), "color_hex", "") = color_hex
                  /\ color_hex = "" => "color_hex" \notin DOMAIN VariantDocAfter(rec)
                  /\ rec.typeDerived =>
                        /\ "color_hex" \notin DOMAIN rec.typeDoc
                        /\ Get(rec.typeDoc, "id", "") = head
                  /\ (~rec.typeDerived /\ type_json \in DOMAIN files) =>
                        files'[type_json] = files[type_json]]_vars

\* Category 5 has just split acme/PLA/silk_pla_red, whose document had
\* color_hex #ff0000, into silk_pla/red: the color is on the variant document
\* and not on the derived type-level document.
C19_Witness ==
    /\ pc = "common_prefix"
    /\ ~dry_run
    /\ <<"acme", "PLA", "silk_pla", "red">> \in dirs
    /\ \E rec \in Applied :
          /\ rec.kind = "split"
          /\ rec.src = <<"acme", "PLA", "silk_pla_red">>
          /\ rec.dst = <<"acme", "PLA", "silk_pla", "red">>
          /\ Get(OldTypeDoc(rec), "color_hex", "") = "#ff0000"
          /\ Get(VariantDocAfter(rec), "color_hex", "") = "#ff0000"
          /\ rec.typeDerived
          /\ "color_hex" \notin DOMAIN rec.typeDoc

\* The variant document of the child a swap moved, as it was before.
ChildDoc(rec) ==
    IF <<"variant.json">> \in DOMAIN rec.before /\ rec.before[<<"variant.json">>].ok
    THEN rec.before[<<"variant.json">>].map ELSE EmptyMap

\* C20 - category 1 swap: every applied swap takes the Variant <product> of a
\* FilamentType <color>, the color's id color-like and the product's holding
\* a material keyword, to FilamentType <product> with Variant <color>; the new
\* variant document keeps every attribute of the child's variant document
\* but id and name, which are the color's id and display name; it has the
\* child's color_hex when the child had one, else the color_hex of the old
\* FilamentType's document when that has one, else none; it has nothing else.
C20_Swap ==
    [][\A rec \in NewlyApplied :
          rec.category = 1 =>
              LET color == rec.src[3]
                  product == rec.src[4]
                  child == ChildDoc(rec)
                  parent == load_json(World, <<rec.src[1], rec.src[2], color, "filament.json">>)
                  new == VariantDocAfter(rec)
              IN  /\ pc = "cat1"
                  /\ rec.kind = "swap"
                  /\ Len(rec.src) = 4
                  /\ rec.dst = <<rec.src[1], rec.src[2], product, color>>
                  /\ is_color_like(color)
                  /\ has_material_keyword(product)
                  /\ rec.src \in dirs /\ ~rec.dstExisted
                  /\ Get(new, "id", "") = color
                  /\ Get(new, "name", "") = clean_display_name(color)
                  /\ \A k \in DOMAIN child \ {"id", "name"} :
                        k \in DOMAIN new /\ new[k] = child[k]
                  /\ DOMAIN new \subseteq DOMAIN child \cup {"id", "name", "color_hex"}
                  /\ "color_hex" \in DOMAIN new \ DOMAIN child =>
                        /\ "color_hex" \in DOMAIN parent
                        /\ new["color_hex"] = parent["color_hex"]
                  /\ "color_hex" \in DOMAIN parent => "color_hex" \in DOMAIN new]_vars

\* Category 1 has just swapped two Variants of acme/TPU/blue: flexible_tpu,
\* whose document had a color_hex of its own and has kept it, and another
\* one whose document had none and has received the old FilamentType's.
C20_Witness ==
    /\ pc = "prefixes"
    /\ ~dry_run
    /\ <<"acme", "TPU", "flexible_tpu", "blue">> \in dirs
    /\ \E rec \in Applied :
          /\ rec.kind = "swap"
          /\ rec.src = <<"acme", "TPU", "blue", "flexible_tpu">>
          /\ rec.dst = <<"acme", "TPU", "flexible_tpu", "blue">>
          /\ "color_hex" \in DOMAIN ChildDoc(rec)
          /\ Get(VariantDocAfter(rec), "color_hex", "") = ChildDoc(rec)["color_hex"]
          /\ Get(VariantDocAfter(rec), "id", "") = "blue"
    /\ \E rec \in Applied :
          /\ rec.kind = "swap"
          /\ "color_hex" \notin DOMAIN ChildDoc(rec)
          /\ "color_hex" \in DOMAIN VariantDocAfter(rec)

(***************************************************************************)
(* format_report as a function of the Report object.                       *)
(***************************************************************************)
\* Actions a Report object may hold: auto with and without a new_path,
\* manual_review, of several categories.
ReportActionPool ==
    { CleanupAction(7, "matter3d_inc", "matter3d_inc/PLA/pla/performance_blue",
                    "matter3d_inc/PLA/performance_pla/blue",
                    "Move to product line filament 'performance_pla'", "auto"),
      CleanupAction(1, "acme", "acme/TPU/blue/flexible_tpu", "acme/TPU/flexible_tpu/blue",
                    "Swap: filament 'blue' is a color, variant 'flexible_tpu' is a product",
                    "auto"),
      CleanupAction(9, "acme", "acme/PLA/pla/red", "", "Fix name: 'Red ()' -> 'Red'", "auto"),
      CleanupAction(6, "zyltech", "zyltech/PLA/pla/red_texas_twister_series_multi_color_x",
                    "", "Variant name is 41 chars (max recommended: 40)", "manual_review"),
      CleanupAction(4, "acme", "acme/PLA/pla/7016", "",
                    "Technical spec in variant name (matched: ^\\d+$)", "manual_review") }

ReportMessages ==
    { << >>,
      <<"Cat 1: acme/TPU/flexible_tpu/blue already exists, skipping">>,
      <<"Cat 7: a/PLA/pla/x -> a/PLA/y/z would collide", "Cat 8: a/PLA/pla/q -> z would collide">> }

SeqsUpTo(S, n) == UNION {[1..k -> S] : k \in 0..n}

\* A Report object and a mode, at the point where run() formats the report.
InitReport ==
    \E as \in SeqsUpTo(ReportActionPool, MaxReportActions),
       sk \in ReportMessages, er \in ReportMessages, dry \in BOOLEAN :
        /\ dirs = {}
        /\ files = << >>
        /\ actions = as
        /\ skipped = sk
        /\ errors = er
        /\ pc = "report"
        /\ brands = << >>
        /\ i = 1
        /\ already_reported = {}
        /\ report_file = << >>
        /\ dry_run = dry
        /\ brand_arg = ""
        /\ category_filter = 0
        /\ fuel = -1
        /\ runNo = 1
        /\ maxRuns = 1
        /\ modes = {}
        /\ applied = << >>
        /\ startTree = NoStore
        /\ hist = << >>
        /\ probe = << >>

NextReport == Report

SpecReport == InitReport /\ [][NextReport]_vars

\* Index of the first line of t equal to line, 0 when there is none.
LinePos(t, line) ==
    IF \E k \in 1..Len(t) : t[k] = line
    THEN CHOOSE k \in 1..Len(t) : t[k] = line /\ \A j \in 1..(k - 1) : t[j] # line
    ELSE 0

SectionHeader(title, n) == title \o " (" \o ToString(n) \o "):"

\* as is listed in t from the line after position p on: for each category of
\* as in ascending order an empty line, the category's header with its count,
\* and the lines of the category's Actions in list order.
RECURSIVE ListedByCategory(_, _, _, _, _)
ListedByCategory(t, p, as, cats, is_auto) ==
    IF Len(cats) = 0 THEN t[p + 1] = ""
    ELSE LET cat == Head(cats)
             group == SelectSeq(as, LAMBDA a : a.category = cat)
             body == FoldSeq(LAMBDA acc, a : acc \o (IF is_auto THEN AutoLines(a)
                                                     ELSE ManualLines(a)),
                            << >>, group)
         IN  /\ \A c \in Range(Tail(cats)) : cat < c
             /\ t[p + 1] = ""
             /\ StartsWith(t[p + 2], "  Category " \o ToString(cat) \o " - ")
             /\ EndsWith(t[p + 2], " (" \o ToString(Len(group)) \o "):")
             /\ SubSeq(t, p + 3, p + 2 + Len(body)) = body
             /\ ListedByCategory(t, p + 2 + Len(body), as, Tail(cats), is_auto)

\* msgs is listed in t from the line after position p on, in list order.
Listed(t, p, msgs) ==
    /\ \A k \in 1..Len(msgs) : t[p + k] = "    " \o msgs[k]
    /\ t[p + Len(msgs) + 1] = ""

\* C21 - report rendering: the report text written for a Report object lists
\* the auto Actions grouped by ascending category, then the manual-review
\* Actions grouped by ascending category, then the skips, then the errors
\* (each section present exactly when its list is not empty), then the
\* summary, whose counts are the lengths of the lists and whose total is the
\* auto count plus the manual count; the text is the one format_report gives
\* for the Report object and the mode.
C21_ReportRendering ==
    pc = "done" =>
        LET t == report_file.text
            auto == AutoActions(actions)
            manual == ManualActions(actions)
            pA == LinePos(t, SectionHeader("AUTO-FIXABLE", Len(auto)))
            pM == LinePos(t, SectionHeader("MANUAL REVIEW NEEDED", Len(manual)))
            pS == LinePos(t, SectionHeader("SKIPPED DUE TO COLLISIONS", Len(skipped)))
            pE == LinePos(t, SectionHeader("ERRORS", Len(errors)))
            pSum == LinePos(t, "SUMMARY:")
            present == SelectSeq(<<pA, pM, pS, pE, pSum>>, LAMBDA p : p # 0)
        IN  /\ t = format_report(actions, skipped, errors, report_file.applied)
            /\ report_file.applied = ~dry_run
            /\ t[5] = "Mode: " \o (IF dry_run THEN "DRY RUN (use --apply to execute)"
                                  ELSE "APPLIED")
            /\ pA # 0 <=> Len(auto) > 0
            /\ pM # 0 <=> Len(manual) > 0
            /\ pS # 0 <=> Len(skipped) > 0
            /\ pE # 0 <=> Len(errors) > 0
            /\ \A k \in 1..(Len(present) - 1) : present[k] < present[k + 1]
            /\ pA # 0 => ListedByCategory(t, pA + 1, auto,
                             SelectSeq(<<1, 2, 3, 4, 5, 6, 7, 8, 9>>,
                                 LAMBDA c : \E k \in 1..Len(auto) : auto[k].category = c),
                             TRUE)
            /\ pM # 0 => ListedByCategory(t, pM + 1, manual,
                             SelectSeq(<<1, 2, 3, 4, 5, 6, 7, 8, 9>>,
                                 LAMBDA c : \E k \in 1..Len(manual) : manual[k].category = c),
                             FALSE)
            /\ pS # 0 => Listed(t, pS + 1, skipped)
            /\ pE # 0 => Listed(t, pE + 1, errors)
            /\ pSum = Len(t) - 6
            /\ t[pSum + 1] = "  Auto-fixable:   " \o ToString(Len(auto))
            /\ t[pSum + 2] = "  Manual review:  " \o ToString(Len(manual))
            /\ t[pSum + 3] = "  Skipped:        " \o ToString(Len(skipped))
            /\ t[pSum + 4] = "  Errors:         " \o ToString(Len(errors))
            /\ t[pSum + 5] = "  Total issues:   " \o ToString(Len(auto) + Len(manual))

\* A report has been written for a Report object whose auto Actions are not
\* in category order and which holds a manual-review Action, skips and errors.
C21_Witness ==
    /\ pc = "done"
    /\ Len(actions) = 3
    /\ actions[1].confidence = "auto" /\ actions[2].confidence = "auto"
    /\ actions[1].category > actions[2].category
    /\ actions[3].confidence = "manual_review"
    /\ Len(skipped) = 2
    /\ Len(errors) = 1

\* C22 - per-run claimed set: in any run, dry-run included, no two Actions of
\* the report carry the same non-empty new_path.
C22_PerRunClaimedSet ==
    \A j, k \in 1..Len(actions) :
        (j # k /\ actions[j].new_path # "") => actions[j].new_path # actions[k].new_path

\* The Variant directories of FilamentType d in the set of directories ds.
VariantsIn(ds, d) == {c \in ds : Len(c) = 4 /\ Parent(c) = d}

\* C23 - source cleanup: no apply-mode run leaves behind a FilamentType
\* directory that had Variants when the run started and that the run has
\* emptied of all of them.
C23_SourceCleanup ==
    (pc = "done" /\ ~dry_run) =>
        \A d \in dirs :
            (Len(d) = 3 /\ VariantsIn(startTree.dirs, d) # {}) => VariantsIn(dirs, d) # {}

\* The type-level document an applied transform had as its template: the
\* document of the FilamentType that was split, or of the FilamentType the
\* moved Variant was in.
SourceTypeDoc(rec) ==
    IF rec.kind = "split" THEN OldTypeDoc(rec)
    ELSE load_json(World, Parent(rec.src) \o <<"filament.json">>)

\* What a step does to FilamentType directories and their documents: a new
\* FilamentType directory appears only in apply mode and only with a Variant
\* an applied transform of the step has put into it; the document a
\* transform derives for it is the template with id and name overwritten and
\* the keys of dropped(rec) removed; a FilamentType document that was there
\* and still is has not changed.
LazyTarget(dropped(_)) ==
    /\ \A d \in dirs' \ dirs :
          Len(d) = 3 =>
              /\ ~dry_run
              /\ \E rec \in NewlyApplied : Parent(rec.dst) = d /\ rec.dst \in dirs'
              /\ d \o <<"filament.json">> \in DOMAIN files'
              /\ \E rec \in NewlyApplied : Parent(rec.dst) = d /\ rec.typeDerived
    /\ \A rec \in NewlyApplied :
          rec.typeDerived =>
              /\ Parent(rec.dst) \notin dirs
              /\ Get(rec.typeDoc, "id", "") = Last(Parent(rec.dst))
              /\ "name" \in DOMAIN rec.typeDoc
              /\ DOMAIN rec.typeDoc \cap dropped(rec) = {}
              /\ DOMAIN rec.typeDoc \ {"id", "name"}
                    = DOMAIN SourceTypeDoc(rec) \ ({"id", "name"} \cup dropped(rec))
              /\ \A k \in DOMAIN rec.typeDoc \ {"id", "name"} :
                    rec.typeDoc[k] = SourceTypeDoc(rec)[k]
    /\ \A p \in DOMAIN files \cap DOMAIN files' :
          (Len(p) = 4 /\ p[4] = "filament.json") => files'[p] = files[p]

\* C24 as stated - lazy target parent: a target FilamentType directory is
\* created only when a Variant is moved into it, and the document it receives
\* is a copy of the source type's document with id and name overwritten; a
\* document already present is left unchanged.
C24_LazyTargetParent == [][LazyTarget(LAMBDA rec : {})]_vars

\* C24 - lazy target parent: as stated, except that the document derived by
\* a category-5 split is the copy without color_hex.
C24_LazyTargetParentSplit ==
    [][LazyTarget(LAMBDA rec : IF rec.kind = "split" THEN {"color_hex"} ELSE {})]_vars

\* A category-7 step of an apply run has skipped digilab_eco_ (nothing left
\* after the prefix) without creating digilab_eco_pla, and has created
\* digilab_pla for the Variant it moved there.
C24_Witness ==
    /\ pc = "product_line_suffixes"
    /\ ~dry_run
    /\ Len(skipped) > 0
    /\ <<"dremel", "PLA", "digilab_eco_pla">> \notin dirs
    /\ <<"dremel", "PLA", "pla", "digilab_eco_">> \in dirs
    /\ <<"dremel", "PLA", "digilab_pla", "black">> \in dirs
    /\ <<"dremel", "PLA", "digilab_pla">> \notin startTree.dirs
    /\ \E rec \in Applied : rec.typeDerived /\ Parent(rec.dst) = <<"dremel", "PLA", "digilab_pla">>

\* The Variant id category 7 keeps of v after prefix p: v without the prefix
\* and, for a brand with SKU codes, without the code that follows it.
AfterPrefix(brand, v, p) ==
    LET r0 == DropFirst(v, Len(p))
    IN  IF brand \in PRODUCT_LINE_SKU_PATTERNS /\ SkuMatchEnd(r0) >= 0
        THEN DropFirst(r0, SkuMatchEnd(r0))
        ELSE r0

\* What a category-7 step records and does: every Action it appends goes
\* from a Variant V of FilamentType T to <line>_T/<rest> when V starts with
\* a configured prefix, and to SuffixType(T, line)/<rest> when V ends with a
\* configured suffix, <rest> being V without the prefix and SKU code or
\* without the suffix; in apply mode the Variant is then at that path and its
\* document has <rest> as id.
ProductLineNaming(SuffixType(_, _)) ==
    \A a \in Appended :
        a.category = 7 =>
            LET src == PathOf(a.old_path)
                dst == PathOf(a.new_path)
                brand == src[1]
                T == src[3]
                V == src[4]
            IN  /\ Len(src) = 4 /\ Len(dst) = 4
                /\ pc \in {"product_lines", "product_line_suffixes"}
                /\ pc = "product_lines" =>
                      \E p \in Range(PRODUCT_LINE_PREFIXES(brand)) :
                          /\ StartsWith(V, p)
                          /\ dst = <<brand, src[2], LineOfPrefix(p) \o "_" \o T,
                                     AfterPrefix(brand, V, p)>>
                /\ pc = "product_line_suffixes" =>
                      \E s \in Range(PRODUCT_LINE_SUFFIXES(brand)) :
                          /\ EndsWith(V, s)
                          /\ dst = <<brand, src[2], SuffixType(T, LineOfSuffix(s)),
                                     DropLast(V, Len(s))>>
                /\ ~dry_run =>
                      /\ dst \in dirs'
                      /\ \E rec \in NewlyApplied :
                            /\ rec.src = src /\ rec.dst = dst
                            /\ Truthy(VariantDocAfter(rec)) =>
                                  Get(VariantDocAfter(rec), "id", "") = dst[4]

\* C25 as stated - category 7 target naming: a Variant matched by a prefix
\* goes to the FilamentType {line}_{old_type}, a Variant matched by a suffix
\* to the FilamentType {old_type}_{line}, with the prefix or suffix and any
\* SKU code stripped from the Variant id.
C25_TargetNaming == [][ProductLineNaming(LAMBDA T, line : T \o "_" \o line)]_vars

\* C25 - category 7 target naming: a Variant matched by a prefix and a
\* Variant matched by a suffix both go to the FilamentType
\* {line}_{old_type}, with the prefix or suffix and any SKU code stripped
\* from the Variant id.
C25_TargetNamingLineFirst == [][ProductLineNaming(LAMBDA T, line : line \o "_" \o T)]_vars

\* An apply run has moved sainsmart/TPU/tpu/black_92a_flexible, matched by
\* the suffix _92a_flexible, to 92a_flexible_tpu/black.
C25_Witness ==
    /\ pc = "suffix_strips"
    /\ ~dry_run
    /\ <<"sainsmart", "TPU", "92a_flexible_tpu", "black">> \in dirs
    /\ <<"sainsmart", "TPU", "tpu_92a_flexible">> \notin dirs
    /\ \E k \in 1..Len(actions) :
          /\ actions[k].category = 7
          /\ actions[k].old_path = "sainsmart/TPU/tpu/black_92a_flexible"
          /\ actions[k].new_path = "sainsmart/TPU/92a_flexible_tpu/black"

(***************************************************************************)
(* Category 7 as a function of the Variant ids: one invocation with        *)
(* --category 7 over the Variants of one FilamentType of one brand of the  *)
(* product-line tables, the ids being a configured prefix followed by a    *)
(* tail or a head followed by a configured suffix.                         *)
(***************************************************************************)
MaxMatchVariants == 2

ProductLineBrands ==
    {"3dxtech", "amolen", "ataraxia_art", "dremel", "eolas_prints", "flashforge",
     "matter3d_inc", "polar_filament", "polymaker", "primacreator", "printedsolid",
     "recreus", "rosa3d_filaments", "sainsmart", "sunlu", "coex_3d", "zyltech",
     "matterhackers"}

MatchTails == {"", "red", "01_red"}

MatchIds(brand) ==
    {p \o t : p \in Range(PRODUCT_LINE_PREFIXES(brand)), t \in MatchTails}
        \cup {t \o s : s \in Range(PRODUCT_LINE_SUFFIXES(brand)), t \in MatchTails}

MatchTrees ==
    UNION {{BuildTree({Seed(7, <<brand, "PLA", "pla", v>>, clean_display_name(v),
                            "ok", "", FALSE) : v \in ids}) :
               ids \in UpTo(MatchIds(brand), MaxMatchVariants) \ {{}}} :
           brand \in ProductLineBrands}

InitMatch == \E t \in MatchTrees, dry \in BOOLEAN : InitWith(t, dry, "", 7, -1, 1, {})

NextMatch ==
    \/ Start
    \/ Category1
    \/ Prefixes23
    \/ ProductLines
    \/ ProductLineSuffixes
    \/ SuffixStrips
    \/ ColorSplit
    \/ CommonPrefix
    \/ NameFixes
    \/ Reduce
    \/ Audit4
    \/ Audit6
    \/ Report

SpecMatch == InitMatch /\ [][NextMatch]_vars

\* The longest string of a non-empty set of strings.
Longest(M) == CHOOSE p \in M : \A q \in M : Len(q) <= Len(p)

\* The skips a step appends to the report.
AppendedSkips == {skipped'[k] : k \in (Len(skipped) + 1)..Len(skipped')}

\* C26 - category 7 longest-first matching: in a category-7 pass a Variant
\* whose id starts (in the suffix pass: ends) with configured prefixes
\* (suffixes) of its brand yields exactly one Action or one skip, made with
\* the longest of them, and any other Variant yields none.
C26_LongestFirst ==
    [][(pc \in {"product_lines", "product_line_suffixes"}) =>
          \A d \in {e \in dirs \cup dirs' : Len(e) = 4} :
              LET brand == d[1]
                  T == d[3]
                  V == d[4]
                  front == pc = "product_lines"
                  M == IF front
                       THEN {p \in Range(PRODUCT_LINE_PREFIXES(brand)) : StartsWith(V, p)}
                       ELSE {s \in Range(PRODUCT_LINE_SUFFIXES(brand)) : EndsWith(V, s)}
                  line == IF front THEN LineOfPrefix(Longest(M)) ELSE LineOfSuffix(Longest(M))
                  rest == IF front THEN AfterPrefix(brand, V, Longest(M))
                          ELSE DropLast(V, Len(Longest(M)))
                  rel_new == RelPath(<<brand, d[2], line \o "_" \o T, rest>>)
                  NA == {a \in Appended : a.category = 7 /\ a.old_path = RelPath(d)}
                  NS == {s \in AppendedSkips : StartsWith(s, "Cat 7: " \o RelPath(d) \o " -> ")}
              IN  /\ Cardinality({k \in (Len(actions) + 1)..Len(actions') :
                                     actions'[k] \in NA})
                        + Cardinality({k \in (Len(skipped) + 1)..Len(skipped') :
                                          skipped'[k] \in NS}) <= 1
                  /\ (d \notin dirs \/ M = {} \/ brand # brands[i] \/ ~Selected({7}))
                        => NA = {} /\ NS = {}
                  /\ (d \in dirs /\ M # {} /\ brand = brands[i] /\ Selected({7})) =>
                        /\ NA \cup NS # {}
                        /\ \A a \in NA : a.new_path = rel_new
                        /\ \A s \in NS :
                              s \in {"Cat 7: " \o RelPath(d) \o " -> empty after stripping "
                                         \o (IF front THEN "prefix" ELSE "suffix")
                                         \o " '" \o Longest(M) \o "'",
                                     "Cat 7: " \o RelPath(d) \o " -> " \o rel_new
                                         \o " would collide"}]_vars

\* The prefix pass has sent dremel's digilab_eco_red, which starts with both
\* digilab_eco_ and digilab_, to the product line digilab_eco.
C26_Witness ==
    /\ pc = "product_line_suffixes"
    /\ \E k \in 1..Len(actions) :
          /\ actions[k].old_path = "dremel/PLA/pla/digilab_eco_red"
          /\ actions[k].new_path = "dremel/PLA/digilab_eco_pla/red"
    /\ \A k \in 1..Len(actions) : actions[k].new_path # "dremel/PLA/digilab_pla/eco_red"

(***************************************************************************)
(* compute_common_prefix as a function: a call with a non-empty list of    *)
(* at most MaxNames names.                                                 *)
(***************************************************************************)
MaxNames == 3

NamePool ==
    {"", "_", "_red", "_blue", "red", "pro_red", "pro_blue", "pro_max_red", "pro_max_blue"}

\* The variables a call of a function on its own does not use.
Idle ==
    /\ dirs = {}
    /\ files = << >>
    /\ actions = << >>
    /\ skipped = << >>
    /\ errors = << >>
    /\ brands = << >>
    /\ i = 1
    /\ already_reported = {}
    /\ report_file = << >>
    /\ dry_run = TRUE
    /\ brand_arg = ""
    /\ category_filter = 0
    /\ fuel = -1
    /\ runNo = 1
    /\ maxRuns = 1
    /\ modes = {}
    /\ applied = << >>
    /\ startTree = NoStore
    /\ hist = << >>

InitCommonPrefix ==
    \E names \in SeqsUpTo(NamePool, MaxNames) :
        /\ Len(names) > 0
        /\ probe = [names |-> names]
        /\ pc = "compute_common_prefix"
        /\ Idle

ComputeCommonPrefix ==
    /\ pc = "compute_common_prefix"
    /\ probe' = [names |-> probe.names, result |-> compute_common_prefix(probe.names)]
    /\ pc' = "returned"
    /\ UNCHANGED <<dirs, files, actions, skipped, errors, brands, i, already_reported,
                   report_file, dry_run, brand_arg, category_filter, fuel, runNo, maxRuns,
                   modes, applied, startTree, hist>>

NextCommonPrefix == ComputeCommonPrefix

SpecCommonPrefix == InitCommonPrefix /\ [][NextCommonPrefix]_vars

\* The non-empty strings that end with "_" and are a prefix of every name.
WordPrefixes(names) ==
    {p \in {SubSeq(names[1], 1, n) : n \in 1..Len(names[1])} :
        /\ EndsWith(p, "_")
        /\ \A k \in 1..Len(names) : StartsWith(names[k], p)}

\* C27 - compute_common_prefix: for a non-empty list of names the function
\* returns the empty string or the longest string that ends with "_" and is
\* a prefix of every name, and it returns the empty string exactly when
\* there is no such string.
C27_CommonPrefix ==
    pc = "returned" =>
        LET Q == WordPrefixes(probe.names)
        IN  /\ probe.result = "" \/
                  (probe.result \in Q /\ \A q \in Q : Len(q) <= Len(probe.result))
            /\ probe.result = "" <=> Q = {}

(***************************************************************************)
(* Category 9 as a function of the display name: invocations with          *)
(* --category 9 over at most MaxFixVariants Variants whose documents carry *)
(* a name of NameFixNames and a color.                                     *)
(***************************************************************************)
MaxFixVariants == 1

NameFixIds == {"red", "galaxy_blue"}

NameFixNames ==
    {"Red", "Red ()", "Red ( )", "Red (())", "Red  Blue", " Red", "()",
     "Galaxy Blue", "Shiny Galaxy Blue"}

NameFixSeeds ==
    {Seed(9, <<"acme", "PLA", "pla", v>>, n, "ok", "#c0c0c0", FALSE) :
        v \in NameFixIds, n \in NameFixNames}

NameFixTrees ==
    {BuildTree(S) : S \in {T \in UpTo(NameFixSeeds, MaxFixVariants) :
                              T # {} /\ \A a, b \in T : a.path = b.path => a = b}}

InitNameFix ==
    \E t \in NameFixTrees, dry \in BOOLEAN : InitWith(t, dry, "", 9, -1, 2, BOOLEAN)

SpecNameFix == InitNameFix /\ [][Next]_vars

\* C28 - category 9 is an in-place, idempotent name cleanup: a category-9
\* step leaves every directory and every path in place and changes nothing
\* but the name attribute of variant documents, and only in apply mode; and in
\* an invocation that directly follows a complete apply-mode invocation it
\* records no Action for a Variant the previous invocation cleaned, and
\* changes nothing there.
C28_NameCleanup ==
    [][(pc = "name_fixes") =>
          /\ dirs' = dirs
          /\ DOMAIN files' = DOMAIN files
          /\ dry_run => files' = files
          /\ \A p \in DOMAIN files :
                files'[p] # files[p] =>
                    /\ Last(p) = "variant.json"
                    /\ files[p].ok /\ files'[p].ok
                    /\ DOMAIN files'[p].map = DOMAIN files[p].map
                    /\ \A k \in DOMAIN files[p].map \ {"name"} :
                          files'[p].map[k] = files[p].map[k]
                    /\ \E a \in Appended : a.category = 9 /\ PathOf(a.old_path) = Parent(p)
          /\ \A a \in Appended : a.category = 9 /\ a.new_path = "" /\ a.confidence = "auto"
          /\ (Len(hist) > 0 /\ ~Previous.dry_run /\ ~Previous.crashed) =>
                \A a \in Appended :
                    \A k \in 1..Len(Previous.actions) :
                        ~(Previous.actions[k].category = 9
                            /\ Previous.actions[k].old_path = a.old_path)]_vars

\* The Brand and MaterialClass directories of a set of directories.
UpperDirs(ds) == {d \in ds : Len(d) \in {1, 2}}

\* C29 - hierarchy frame: every Action with a new_path goes from a path of a
\* brand and material class to a path of Variant depth of the same brand and
\* material class; every applied transform has its source and destination
\* under the same MaterialClass directory; and no step creates, renames or
\* deletes a Brand or MaterialClass directory.
C29_HierarchyFrame ==
    [][/\ \A a \in Appended :
             a.new_path # "" =>
                 /\ Len(PathOf(a.new_path)) = 4
                 /\ Len(PathOf(a.old_path)) \in {3, 4}
                 /\ SubSeq(PathOf(a.new_path), 1, 2) = SubSeq(PathOf(a.old_path), 1, 2)
                 /\ PathOf(a.old_path)[1] = a.brand
       /\ \A rec \in NewlyApplied :
             /\ Len(rec.dst) = 4
             /\ SubSeq(rec.dst, 1, 2) = SubSeq(rec.src, 1, 2)
       /\ UpperDirs(dirs') = UpperDirs(dirs)]_vars

\* An apply run has moved a Variant to another FilamentType and has removed
\* the FilamentType it emptied; the MaterialClass directory is still there.
C29_Witness ==
    /\ pc = "done"
    /\ ~dry_run
    /\ \E rec \in Applied :
          /\ rec.kind = "move"
          /\ rec.dst \in dirs
          /\ Parent(rec.src) \notin dirs
          /\ Parent(Parent(rec.src)) \in dirs
    /\ \E k \in 1..Len(actions) : actions[k].new_path # ""

\* The Variant nodes of a set of directories.
VariantsOf(ds) == {d \in ds : Len(d) = 4}

\* Variant c of the tree before the step is in the tree after it: in place,
\* or where a rename or move of the step has taken it, or, when its
\* FilamentType was split, under the base FilamentType with its document.
Conserved(c) ==
    \/ c \in dirs'
    \/ \E rec \in NewlyApplied :
          \/ rec.kind # "split" /\ rec.src = c /\ rec.dst \in dirs'
          \/ /\ rec.kind = "split" /\ rec.src = Parent(c)
             /\ Parent(rec.dst) \o <<Last(c)>> \in dirs' \ dirs
             /\ \A n \in {"variant.json", "sizes.json"} :
                   c \o <<n>> \in DOMAIN files =>
                       /\ Parent(rec.dst) \o <<Last(c), n>> \in DOMAIN files'
                       /\ files'[Parent(rec.dst) \o <<Last(c), n>>] = files[c \o <<n>>]

\* C30 - variant conservation: no step, and so no run, reduces the number of
\* Variant nodes; each applied rename or move takes one Variant directory to
\* one Variant directory that is in the tree afterwards, two transforms of a
\* step never to the same one; no directory appears below a Variant
\* directory; and every Variant is conserved, so that a FilamentType
\* directory disappears only when none of its Variants is left in it.
C30_VariantConservation ==
    [][/\ Cardinality(VariantsOf(dirs')) >= Cardinality(VariantsOf(dirs))
       /\ \A rec \in NewlyApplied :
             rec.kind \in {"swap", "move", "strip"} =>
                 /\ Len(rec.src) = 4 /\ Len(rec.dst) = 4
                 /\ rec.src \in dirs
                 /\ rec.dst \in dirs'
                 /\ \A other \in NewlyApplied :
                       (other.dst = rec.dst /\ other.kind # "split") => other = rec
       /\ {d \in dirs' : Len(d) > 4} \subseteq dirs
       /\ \A c \in VariantsOf(dirs) : Conserved(c)]_vars

\* A category-8 step of an apply run has moved both Variants of a
\* FilamentType away, has removed the emptied FilamentType, and the tree has
\* as many Variants as before.
C30_Witness ==
    /\ pc = "name_fixes"
    /\ ~dry_run
    /\ \E rec1, rec2 \in Applied :
          /\ rec1.category = 8 /\ rec2.category = 8
          /\ rec1.kind = "move" /\ rec2.kind = "move"
          /\ rec1.src # rec2.src
          /\ Parent(rec1.src) = Parent(rec2.src)
          /\ Parent(rec1.src) \notin dirs
          /\ rec1.dst \in dirs /\ rec2.dst \in dirs
    /\ Cardinality(VariantsOf(dirs)) >= Cardinality(VariantsOf(startTree.dirs))

====
